---------------------------- MODULE Spec2Model ----------------------------
(***************************************************************************)
(* A model of the multi-factor ranking core of rec_demo                    *)
(* (app/experiment_service.py, app/embedding_service.py):                  *)
(*   - ABTestService: deterministic experiment assignment                  *)
(*   - SessionService: per-session realtime preference tracking            *)
(*   - BehaviorService: time decay, order log, customization boost         *)
(*   - EmbeddingRecommendationEngine.recommend_v2: factor composition      *)
(*                                                                         *)
(* Python floats are modelled as exact rationals in fixed point (the       *)
(* scale is named where it is used); time.time() is the variable clock,    *)
(* in seconds.                                                             *)
(***************************************************************************)
EXTENDS Integers, Sequences, FiniteSets, Bags, TLC

VARIABLES
    \* ---- ABTestService ----
    db_experiments,      \* tables experiments / experiment_variants (SQLite)
    experiments_cache,   \* ABTestService._experiments_cache
    initialized,         \* ABTestService._initialized
    ab_result,           \* what the last get_variant / get_variant_async returned
    \* ---- SessionService ----
    sessions,            \* SessionService.sessions: session_id -> session
    clock,               \* time.time(), seconds
    inflight,            \* POST /api/session/interaction requests accepted, not yet run
    served,              \* the requests run so far, in the order the event loop ran them
    session_boost,       \* what the last get_session_boost returned
    \* ---- BehaviorService ----
    orders,              \* the rows of table orders, in insertion order
    behaviors,           \* the rows of table user_behavior, in insertion order
    profile,             \* what the last get_user_profile_async returned
    presets,             \* the rows of table user_presets, in insertion order
    cust_boost,          \* what the last get_customization_based_boost_async returned
    order_boost,         \* what the last get_order_based_recommendation_boost_async returned
    ranked,              \* the factors recommend_v2 computed for the last candidate it scored
    result,              \* what the last POST /api/embedding/recommend/v2 returned
    suggestion,          \* what the last get_suggested_customization_for_item_async returned
    \* ---- CartService ----
    carts,               \* tables carts / cart_items: session_id -> the cart row and its items
    completed_orders,    \* the rows of table completed_orders, in insertion order
    checkout             \* POST /api/cart/checkout requests: each coroutine's position and locals

abVars == <<db_experiments, experiments_cache, initialized, ab_result>>
sessVars == <<sessions, clock, inflight, served, session_boost>>

behVars == <<orders, behaviors, profile, presets, cust_boost, order_boost, ranked, result, suggestion>>
cartVars == <<carts, completed_orders, checkout>>

\* what the ABTestService operations leave alone
notAB == <<sessVars, behVars, cartVars>>
\* what the SessionService operations leave alone
notSess == <<abVars, behVars, cartVars>>
\* what the BehaviorService operations leave alone
notBeh == <<abVars, sessVars, cartVars>>

vars == <<db_experiments, experiments_cache, initialized, ab_result,
          sessions, clock, inflight, served, session_boost,
          orders, behaviors, profile, presets, cust_boost, order_boost, ranked, result, suggestion,
          carts, completed_orders, checkout>>

-----------------------------------------------------------------------------
(* Generic helpers                                                         *)

Min2(a, b) == IF a <= b THEN a ELSE b
Max2(a, b) == IF a >= b THEN a ELSE b

\* dict[key] = value on a function whose domain is the set of present keys
Put(f, k, v) == [x \in (DOMAIN f) \cup {k} |-> IF x = k THEN v ELSE f[x]]

EmptyDict == [x \in {} |-> 0]

-----------------------------------------------------------------------------
(* ABTestService                                                           *)

UserIds == {"u1", "u2", "u3"}

DefaultExperimentIds ==
    {"rec_algorithm", "reason_style", "customization_strategy",
     "customization_display", "context_weight", "weather_adaptation"}

ExperimentIds == DefaultExperimentIds \cup {"exp_x"}

Variant(id, weight) == [id |-> id, weight |-> weight]

\* default_experiments of _init_default_experiments: ids and weights in
\* declaration order, all active
DefaultExperiment(e) ==
    [status |-> "active",
     variants |->
        CASE e = "rec_algorithm" ->
                <<Variant("embedding", 34), Variant("embedding_plus", 33), Variant("hybrid", 33)>>
          [] e = "reason_style" ->
                <<Variant("concise", 50), Variant("detailed", 50)>>
          [] e = "customization_strategy" ->
                <<Variant("user_history", 34), Variant("item_popular", 33), Variant("hybrid", 33)>>
          [] e = "customization_display" ->
                <<Variant("inline", 50), Variant("expandable", 50)>>
          [] e = "context_weight" ->
                <<Variant("low", 33), Variant("medium", 34), Variant("high", 33)>>
          [] e = "weather_adaptation" ->
                <<Variant("none", 25), Variant("temperature_only", 25), Variant("full", 50)>>]

\* Experiment definitions a caller registers for "exp_x" through
\* create_experiment(_async) (class Experiment: free variants and status)
CustomExperiments ==
    { [status |-> "active", variants |-> <<Variant("a", 70), Variant("b", 30)>>],
      [status |-> "active", variants |-> <<Variant("a", 30), Variant("b", 30)>>],
      [status |-> "active", variants |-> <<Variant("a", 20), Variant("b", 40), Variant("c", 10)>>],
      [status |-> "paused", variants |-> <<Variant("a", 50), Variant("b", 50)>>] }

\* int(hashlib.md5(f"{experiment_id}:{user_id}".encode()).hexdigest(), 16) % 100,
\* the values md5 gives for these strings
Md5Bucket(e, u) ==
    CASE e = "rec_algorithm" /\ u = "u1" -> 16
      [] e = "rec_algorithm" /\ u = "u2" -> 9
      [] e = "rec_algorithm" /\ u = "u3" -> 59
      [] e = "rec_algorithm" /\ u = "u6" -> 92
      [] e = "reason_style" /\ u = "u1" -> 14
      [] e = "reason_style" /\ u = "u2" -> 15
      [] e = "reason_style" /\ u = "u3" -> 24
      [] e = "reason_style" /\ u = "u6" -> 86
      [] e = "customization_strategy" /\ u = "u1" -> 73
      [] e = "customization_strategy" /\ u = "u2" -> 32
      [] e = "customization_strategy" /\ u = "u3" -> 21
      [] e = "customization_display" /\ u = "u1" -> 56
      [] e = "customization_display" /\ u = "u2" -> 31
      [] e = "customization_display" /\ u = "u3" -> 54
      [] e = "context_weight" /\ u = "u1" -> 54
      [] e = "context_weight" /\ u = "u2" -> 8
      [] e = "context_weight" /\ u = "u3" -> 42
      [] e = "weather_adaptation" /\ u = "u1" -> 36
      [] e = "weather_adaptation" /\ u = "u2" -> 30
      [] e = "weather_adaptation" /\ u = "u3" -> 63
      [] e = "exp_x" /\ u = "u1" -> 26
      [] e = "exp_x" /\ u = "u2" -> 66
      [] e = "exp_x" /\ u = "u3" -> 78

NoExperiment == [status |-> "missing", variants |-> <<>>]

NoResult == [experiment_id |-> "", user_id |-> "", variant |-> "",
             entry |-> "none", exp |-> NoExperiment, registered |-> FALSE]

\* self._experiments_cache.get(experiment_id)
CacheGet(cache, e) == IF e \in DOMAIN cache THEN cache[e] ELSE NoExperiment

\* The loop `for variant in exp["variants"]: cumulative += weight;
\* if bucket < cumulative: return variant` from position i on; 0 when the
\* loop ends without returning
RECURSIVE WalkVariantsByOwnWeight(_, _, _, _)
WalkVariantsByOwnWeight(variants, bucket, i, cumulative) ==
    IF i > Len(variants) THEN 0
    ELSE IF bucket < variants[i].weight THEN i
    ELSE WalkVariantsByOwnWeight(variants, bucket, i + 1, cumulative)

RECURSIVE WalkVariants(_, _, _, _)
WalkVariants(variants, bucket, i, cumulative) ==
    IF i > Len(variants) THEN 0
    ELSE IF bucket < cumulative + variants[i].weight THEN i
    ELSE WalkVariants(variants, bucket, i + 1, cumulative + variants[i].weight)

\* The statement after the loop: return {"variant": exp["variants"][0]["id"]}
\* (an IndexError when the experiment has no variants)
FallbackVariant(variants) ==
    IF Len(variants) = 0 THEN "IndexError" ELSE variants[1].id

\* The body shared by get_variant and get_variant_async once exp is read
AssignVariant(exp, e, u) ==
    IF exp.status # "active" THEN "control"
    ELSE LET i == WalkVariants(exp.variants, Md5Bucket(e, u), 1, 0)
         IN  IF i > 0 THEN exp.variants[i].id ELSE FallbackVariant(exp.variants)

\* _load_experiments followed by _init_default_experiments: the cache is
\* replaced by the stored rows, then every default experiment that is not
\* in the cache is saved (stored and cached)
LoadedCache(db) ==
    [e \in (DOMAIN db) \cup DefaultExperimentIds |->
        IF e \in DOMAIN db THEN db[e] ELSE DefaultExperiment(e)]

ResultOf(cache, db, e, u, entry) ==
    [experiment_id |-> e, user_id |-> u,
     variant |-> AssignVariant(CacheGet(cache, e), e, u),
     entry |-> entry, exp |-> CacheGet(cache, e),
     registered |-> e \in DOMAIN db]

\* _ensure_initialized: the cache and the tables it leaves behind
AfterInit ==
    IF initialized
    THEN [cache |-> experiments_cache, db |-> db_experiments]
    ELSE [cache |-> LoadedCache(db_experiments), db |-> LoadedCache(db_experiments)]

\* async get_variant_async(experiment_id, user_id)
GetVariantAsync(e, u) ==
    /\ experiments_cache' = AfterInit.cache
    /\ db_experiments' = AfterInit.db
    /\ initialized' = TRUE
    /\ ab_result' = ResultOf(AfterInit.cache, db_experiments, e, u, "async")
    /\ UNCHANGED notAB

\* get_variant(experiment_id, user_id); in_loop: an event loop is running in
\* the calling thread (asyncio.get_running_loop() does not raise)
GetVariant(e, u, in_loop) ==
    /\ IF experiments_cache = EmptyDict /\ in_loop
       THEN \* exp = cache.get(experiment_id) is None: return "control"
            /\ ab_result' = ResultOf(experiments_cache, db_experiments, e, u, "sync")
            /\ UNCHANGED <<db_experiments, experiments_cache, initialized>>
       ELSE IF experiments_cache = EmptyDict
       THEN \* asyncio.run(self._ensure_initialized())
            /\ experiments_cache' = AfterInit.cache
            /\ db_experiments' = AfterInit.db
            /\ initialized' = TRUE
            /\ ab_result' = ResultOf(AfterInit.cache, db_experiments, e, u, "sync")
       ELSE /\ ab_result' = ResultOf(experiments_cache, db_experiments, e, u, "sync")
            /\ UNCHANGED <<db_experiments, experiments_cache, initialized>>
    /\ UNCHANGED notAB

\* async create_experiment_async(exp): _ensure_initialized, then
\* _save_experiment (INSERT OR REPLACE, variants rewritten, cache updated).
\* A new definition starts a new experiment: the last result is forgotten.
CreateExperimentAsync(e, exp) ==
    /\ experiments_cache' = Put(AfterInit.cache, e, exp)
    /\ db_experiments' = Put(AfterInit.db, e, exp)
    /\ initialized' = TRUE
    /\ ab_result' = NoResult
    /\ UNCHANGED notAB

\* create_experiment(exp): inside a running loop only the cache is written;
\* otherwise asyncio.run(self._save_experiment(exp_dict))
CreateExperiment(e, exp, in_loop) ==
    /\ experiments_cache' = Put(experiments_cache, e, exp)
    /\ db_experiments' = IF in_loop THEN db_experiments ELSE Put(db_experiments, e, exp)
    /\ UNCHANGED initialized
    /\ ab_result' = NoResult
    /\ UNCHANGED notAB

-----------------------------------------------------------------------------
(* SessionService                                                          *)

SessionIds == {"s1", "s2"}

\* session["interactions"] = session["interactions"][-50:]
MaxInteractions == 50

\* item_data of an interaction, {sku, tags, category, price}: a key that is
\* absent is "" (category) or 0 (price), both falsy as None is
Item(sku, tags, category, price) ==
    [sku |-> sku, tags |-> tags, category |-> category, price |-> price]

Latte == Item("latte", <<"coffee", "milk">>, "coffee", 30)
Sampler == Item("sampler", <<"milk", "tea", "fruit", "ice", "sweet", "new", "hot",
                             "light", "oat", "soy", "nut", "mint">>, "tea", 45)
Plain == Item("plain", <<>>, "", 0)

NoPriceRange == [present |-> FALSE, min |-> 0, max |-> 0,
                 avg_num |-> 0, avg_den |-> 1, count |-> 0]

\* the dict get_or_create_session stores for a new session_id
\* (temperature_preference and experiment_assignments are never written
\* after creation and are left out)
NewSession(user_id, now) ==
    [user_id |-> user_id, created_at |-> now, last_active |-> now, interactions |-> <<>>,
     liked_tags |-> <<>>, disliked_tags |-> <<>>, viewed_categories |-> <<>>,
     price_range |-> NoPriceRange]

\* x in list
InList(x, list) == \E i \in 1..Len(list) : list[i] = x

\* if x not in list: list.append(x)
AppendIfAbsent(list, x) == IF InList(x, list) THEN list ELSE Append(list, x)

\* if x in list: list.remove(x)   (the first occurrence)
RECURSIVE RemoveFirst(_, _)
RemoveFirst(list, x) ==
    IF list = <<>> THEN <<>>
    ELSE IF Head(list) = x THEN Tail(list)
    ELSE <<Head(list)>> \o RemoveFirst(Tail(list), x)

\* list[-n:]
LastN(list, n) ==
    IF Len(list) <= n THEN list ELSE SubSeq(list, Len(list) - n + 1, Len(list))

\* like: for tag in tags: if tag not in liked_tags: liked_tags.append(tag)
RECURSIVE LikeTags(_, _)
LikeTags(prefs, tags) ==
    IF tags = <<>> THEN prefs
    ELSE LikeTags([prefs EXCEPT !.liked_tags = AppendIfAbsent(@, Head(tags))],
                  Tail(tags))

\* dislike: for tag in tags: append to disliked_tags if absent, and remove
\* from liked_tags if present
RECURSIVE DislikeTags(_, _)
DislikeTags(prefs, tags) ==
    IF tags = <<>> THEN prefs
    ELSE DislikeTags([prefs EXCEPT !.disliked_tags = AppendIfAbsent(@, Head(tags)),
                                   !.liked_tags = RemoveFirst(@, Head(tags))],
                     Tail(tags))

RECURSIVE Gcd(_, _)
Gcd(a, b) == IF b = 0 THEN a ELSE Gcd(b, a % b)

\* a price_range update that starts over from the new price, losing the
\* prices recorded before it
UpdatePriceRangeLost(pr, price) ==
    [present |-> TRUE, min |-> price, max |-> price,
     avg_num |-> price, avg_den |-> 1, count |-> 1]

\* the price_range update of a view or click with a truthy price; avg is the
\* fraction avg_num / avg_den in lowest terms:
\* pr["avg"] = (pr["avg"] * pr["count"] + price) / (pr["count"] + 1)
UpdatePriceRange(pr, price) ==
    IF ~pr.present
    THEN [present |-> TRUE, min |-> price, max |-> price,
          avg_num |-> price, avg_den |-> 1, count |-> 1]
    ELSE LET num == pr.avg_num * pr.count + price * pr.avg_den
             den == pr.avg_den * (pr.count + 1)
             g == Gcd(num, den)
         IN  [present |-> TRUE,
              min |-> Min2(pr.min, price),
              max |-> Max2(pr.max, price),
              avg_num |-> num \div g,
              avg_den |-> den \div g,
              count |-> pr.count + 1]

\* view / click: viewed_categories and price_range
ViewItem(prefs, item) ==
    [prefs EXCEPT
        !.viewed_categories =
            IF item.category # "" THEN AppendIfAbsent(@, item.category) ELSE @,
        !.price_range =
            IF item.price # 0 THEN UpdatePriceRange(@, item.price) ELSE @]

\* user_id or f"guest_{session_id[:8]}"   (user_id "" is None)
OwnerOf(sid, user_id) ==
    IF user_id = "" THEN [guest |-> TRUE, id |-> sid] ELSE [guest |-> FALSE, id |-> user_id]

\* get_or_create_session(session_id, user_id): the table afterwards
GetOrCreate(table, sid, user_id, now) ==
    IF sid \in DOMAIN table
    THEN [table EXCEPT ![sid].last_active = now]
    ELSE Put(table, sid, NewSession(OwnerOf(sid, user_id), now))

\* a ring that keeps the oldest entries ([:50]) instead of the newest
PushInteractionOldest(interactions, interaction) ==
    SubSeq(Append(interactions, interaction), 1,
           Min2(Len(interactions) + 1, MaxInteractions))

\* session["interactions"].append(interaction), then the slice
PushInteraction(interactions, interaction) ==
    LastN(Append(interactions, interaction), MaxInteractions)

\* record_interaction(session_id, interaction_type, item_data) run at time
\* now: the table afterwards
RecordInteractionOn(table, sid, type, item, now) ==
    LET t1 == GetOrCreate(table, sid, "", now)
        s1 == [t1[sid] EXCEPT !.interactions =
                  PushInteraction(@, [type |-> type, item |-> item, timestamp |-> now])]
        s2 == CASE type = "like" -> LikeTags(s1, item.tags)
                [] type = "dislike" -> DislikeTags(s1, item.tags)
                [] type \in {"view", "click"} -> ViewItem(s1, item)
                [] OTHER -> s1
    IN  [t1 EXCEPT ![sid] = s2]

\* sum(1 for tag in item_tags if tag in list)
RECURSIVE CountIn(_, _)
CountIn(item_tags, list) ==
    IF item_tags = <<>> THEN 0
    ELSE (IF InList(Head(item_tags), list) THEN 1 ELSE 0) + CountIn(Tail(item_tags), list)

\* Session boosts are in millionths: 1.0 is BoostOne
BoostOne == 1000000
BoostCap == (25 * BoostOne) \div 10

\* get_session_boost returning the product as it is
ClampBoostNone(boost) == boost

\* return min(boost, 2.5)
ClampBoost(boost) == Min2(boost, BoostCap)

\* a boost that starts below 1.0 when no tag of the item is liked
RawSessionBoostPenalising(s, item_tags, item_category, item_price) ==
    LET liked_match == CountIn(item_tags, s.liked_tags)
        disliked_match == CountIn(item_tags, s.disliked_tags)
        pr == s.price_range
    IN  (IF liked_match = 0 THEN 90 ELSE 100 + liked_match * 15)
        * Max2(3, 10 - disliked_match * 3)
        * (IF InList(item_category, s.viewed_categories) THEN 11 ELSE 10)
        * (IF pr.present /\ pr.count >= 3 /\ pr.min <= item_price /\ item_price <= pr.max
           THEN 105 ELSE 100)

\* the product get_session_boost builds before the clamp:
\* (1.0 + liked_match * 0.15) * max(0.3, 1.0 - disliked_match * 0.3)
\* * 1.1 if the category was viewed * 1.05 if the price is in the range seen
RawSessionBoost(s, item_tags, item_category, item_price) ==
    LET liked_match == CountIn(item_tags, s.liked_tags)
        disliked_match == CountIn(item_tags, s.disliked_tags)
        pr == s.price_range
    IN  (100 + liked_match * 15)
        * Max2(3, 10 - disliked_match * 3)
        * (IF InList(item_category, s.viewed_categories) THEN 11 ELSE 10)
        * (IF pr.present /\ pr.count >= 3 /\ pr.min <= item_price /\ item_price <= pr.max
           THEN 105 ELSE 100)

\* get_session_boost(session_id, item_tags, item_category, item_price)
SessionBoostOf(table, sid, item_tags, item_category, item_price) ==
    IF sid \notin DOMAIN table THEN BoostOne
    ELSE ClampBoost(RawSessionBoost(table[sid], item_tags, item_category, item_price))

\* cleanup_expired_sessions(max_age_seconds): the table afterwards
CleanedUp(table, now, max_age_seconds) ==
    [sid \in {x \in DOMAIN table : ~(now - table[x].last_active > max_age_seconds)}
        |-> table[sid]]

Items == {Latte, Sampler, Plain}

InteractionTypes == {"like", "dislike", "view", "click"}

\* Bound: interaction requests accepted in one run
MaxCalls == 3

NoBoost == [session_id |-> "", item |-> Plain, boost |-> 0]

Request(sid, type, item) == [session_id |-> sid, type |-> type, item |-> item]

\* requests in the bag b that are for session sid
RECURSIVE PendingFor(_, _, _)
PendingFor(b, todo, sid) ==
    IF todo = {} THEN 0
    ELSE LET r == CHOOSE x \in todo : TRUE
         IN  (IF r.session_id = sid THEN CopiesIn(r, b) ELSE 0)
             + PendingFor(b, todo \ {r}, sid)

\* POST /api/session/interaction is accepted by the server: the coroutine
\* record_session_interaction is scheduled on the event loop
Submit(sid, type, item) ==
    /\ Len(served) + BagCardinality(inflight) < MaxCalls
    /\ inflight' = inflight (+) SetToBag({Request(sid, type, item)})
    /\ UNCHANGED <<sessions, clock, served, session_boost>>
    /\ UNCHANGED notSess

\* The event loop runs one scheduled record_session_interaction. The
\* coroutine has no await: session_service.record_interaction runs from its
\* first statement to its return before any other coroutine is resumed.
Handle(r) ==
    /\ BagIn(r, inflight)
    /\ sessions' = RecordInteractionOn(sessions, r.session_id, r.type, r.item, clock)
    /\ inflight' = inflight (-) SetToBag({r})
    /\ served' = Append(served,
                        [req |-> r, at |-> clock,
                         overlap |-> PendingFor(inflight, BagToSet(inflight), r.session_id) - 1])
    /\ UNCHANGED <<clock, session_boost>>
    /\ UNCHANGED notSess

\* record_session_interaction run as soon as it is accepted (no other
\* request in between), at time now >= clock
RecordInteractionAt(sid, type, item, now) ==
    /\ sessions' = RecordInteractionOn(sessions, sid, type, item, now)
    /\ clock' = now
    /\ served' = Append(served, [req |-> Request(sid, type, item), at |-> now, overlap |-> 0])
    /\ session_boost' = NoBoost
    /\ UNCHANGED inflight
    /\ UNCHANGED notSess

\* POST /api/session/{session_id}/init
InitSession(sid, user_id) ==
    /\ sessions' = GetOrCreate(sessions, sid, user_id, clock)
    /\ session_boost' = NoBoost
    /\ UNCHANGED <<clock, inflight, served>>
    /\ UNCHANGED notSess

\* get_session_boost(session_id, item.tags, item.category, item.base_price)
GetSessionBoost(sid, item) ==
    /\ session_boost' = [session_id |-> sid, item |-> item,
                         boost |-> SessionBoostOf(sessions, sid, item.tags,
                                                  item.category, item.price)]
    /\ UNCHANGED <<sessions, clock, inflight, served>>
    /\ UNCHANGED notSess

\* def cleanup_expired_sessions(self, max_age_seconds: int = 3600)
DefaultMaxAge == 3600

\* cleanup_expired_sessions(max_age_seconds)
CleanupExpiredSessions(max_age_seconds) ==
    /\ sessions' = CleanedUp(sessions, clock, max_age_seconds)
    /\ session_boost' = NoBoost
    /\ UNCHANGED <<clock, inflight, served>>
    /\ UNCHANGED notSess

\* time passes
Tick(seconds, limit) ==
    /\ clock + seconds <= limit
    /\ clock' = clock + seconds
    /\ UNCHANGED <<sessions, inflight, served, session_boost>>
    /\ UNCHANGED notSess

-----------------------------------------------------------------------------
(* BehaviorService                                                         *)

\* TIME_DECAY_HALFLIFE_DAYS days, in seconds
HalfLifeSeconds == 30 * 24 * 3600

\* Decay weights are in 160ths: 1.0 is DecayOne, the floor 0.1 is DecayFloor
DecayOne == 160
DecayFloor == DecayOne \div 10

RECURSIVE Pow2(_)
Pow2(n) == IF n = 0 THEN 1 ELSE 2 * Pow2(n - 1)

\* _calculate_time_decay(timestamp) evaluated at time now, for times a
\* whole number of half-lives apart:
\* days_ago = (now - timestamp) / 86400; decay = 0.5 ** (days_ago / 30);
\* return max(decay, 0.1).  Below the floor the quotient need not be exact.
TimeDecay(now, timestamp) ==
    LET halflives == (now - timestamp) \div HalfLifeSeconds
        decay == IF halflives >= 0
                 THEN DecayOne \div Pow2(halflives)
                 ELSE DecayOne * Pow2(0 - halflives)
    IN  Max2(decay, DecayFloor)

\* order.customization: "" is a key the dict does not have
Customization(temperature, cup_size, milk_type, sugar_level) ==
    [temperature |-> temperature, cup_size |-> cup_size,
     milk_type |-> milk_type, sugar_level |-> sugar_level]

NoCustomization == Customization("", "", "", "")

\* the keys of a customization dict, in the order the clients write them
CustomizationKeys == <<"temperature", "cup_size", "milk_type", "sugar_level">>

\* the row record_order_async inserts at time now;
\* timestamp = order.timestamp or time.time()  (0 stands for None and for 0)
OrderRow(user_id, item, customization, timestamp, now) ==
    [user_id |-> user_id, item_sku |-> item.sku, category |-> item.category,
     tags |-> item.tags, base_price |-> item.price, customization |-> customization,
     timestamp |-> IF timestamp = 0 THEN now ELSE timestamp]

\* rows of a table for one user, in insertion order
RECURSIVE RowsOf(_, _)
RowsOf(rows, user_id) ==
    IF rows = <<>> THEN <<>>
    ELSE IF Head(rows).user_id = user_id
    THEN <<Head(rows)>> \o RowsOf(Tail(rows), user_id)
    ELSE RowsOf(Tail(rows), user_id)

\* ORDER BY timestamp DESC: row put into a list already in that order
\* (rows of equal timestamp stay in insertion order)
RECURSIVE InsertByTimestampDesc(_, _)
InsertByTimestampDesc(sorted, row) ==
    IF sorted = <<>> THEN <<row>>
    ELSE IF Head(sorted).timestamp >= row.timestamp
    THEN <<Head(sorted)>> \o InsertByTimestampDesc(Tail(sorted), row)
    ELSE <<row>> \o sorted

RECURSIVE OrderByTimestampDesc(_)
OrderByTimestampDesc(rows) ==
    IF rows = <<>> THEN <<>>
    ELSE InsertByTimestampDesc(OrderByTimestampDesc(SubSeq(rows, 1, Len(rows) - 1)),
                               rows[Len(rows)])

\* get_user_orders_async(user_id, limit=50)
OrdersLimit == 50
UserOrders(table, user_id) ==
    LET rows == OrderByTimestampDesc(RowsOf(table, user_id))
    IN  SubSeq(rows, 1, Min2(Len(rows), OrdersLimit))

RECURSIVE Sum(_)
Sum(seq) == IF seq = <<>> THEN 0 ELSE Head(seq) + Sum(Tail(seq))

\* the distinct elements of a list, in order of first appearance (the key
\* order of a dict filled while iterating the list)
RECURSIVE Distinct(_)
Distinct(list) ==
    IF list = <<>> THEN <<>>
    ELSE LET init == Distinct(SubSeq(list, 1, Len(list) - 1))
         IN  AppendIfAbsent(init, list[Len(list)])

\* a key an order's customization dict holds with the JSON value null
\* (json.loads gives None)
JsonNull == "json_null"

\* str(value) of a customization value: a string is itself, None is "None"
Str(value) == IF value = JsonNull THEN "None" ELSE value

\* the values user_orders give the customization key, in iteration order:
\* customization_counts[key][str(value)] += 1 for every key of the dict
RECURSIVE ValuesOf(_, _)
ValuesOf(user_orders, key) ==
    IF user_orders = <<>> THEN <<>>
    ELSE (IF Head(user_orders).customization[key] # ""
          THEN <<Str(Head(user_orders).customization[key])>> ELSE <<>>)
         \o ValuesOf(Tail(user_orders), key)

\* sorted(value_counts.items(), key=lambda x: -x[1]): entry put into a list
\* already sorted that way (sorted is stable)
RECURSIVE InsertByCountDesc(_, _)
InsertByCountDesc(sorted, entry) ==
    IF sorted = <<>> THEN <<entry>>
    ELSE IF Head(sorted).count >= entry.count
    THEN <<Head(sorted)>> \o InsertByCountDesc(Tail(sorted), entry)
    ELSE <<entry>> \o sorted

RECURSIVE SortByCountDesc(_)
SortByCountDesc(entries) ==
    IF entries = <<>> THEN <<>>
    ELSE InsertByCountDesc(SortByCountDesc(SubSeq(entries, 1, Len(entries) - 1)),
                           entries[Len(entries)])

\* round(c / total, 2) in hundredths, ties to even
Round2(c, total) ==
    LET q == (100 * c) \div total
        r == (100 * c) % total
    IN  IF 2 * r > total \/ (2 * r = total /\ q % 2 = 1) THEN q + 1 ELSE q

\* customization_preference[key]: the three most frequent values with their
\* share of all the values counted, most frequent first
TopN == 3
PreferenceOf(user_orders, key) ==
    LET values == ValuesOf(user_orders, key)
        keys == Distinct(values)
        counted == [i \in 1..Len(keys) |->
                       [value |-> keys[i], count |-> Cardinality({j \in 1..Len(values) : values[j] = keys[i]})]]
        top == SubSeq(SortByCountDesc(counted), 1, Min2(Len(counted), TopN))
    IN  [i \in 1..Len(top) |->
            [value |-> top[i].value, count |-> top[i].count,
             ratio |-> Round2(top[i].count, Len(values))]]

\* the profile of a user with no order and no behavior row
NewUserProfile(user_id) ==
    [user_id |-> user_id, is_new_user |-> TRUE, order_count |-> 0,
     decays |-> <<>>, sku_scores |-> EmptyDict,
     customization_preference |-> [key \in {} |-> <<>>]]

\* get_user_profile_async(user_id) at time now. decays lists what
\* _calculate_time_decay returned for each order read; sku_scores are in units
\* of 1/DecayOne; a key of customization_preference is present when some
\* order gives it a value.
UserProfile(order_table, behavior_table, user_id, now) ==
    LET user_orders == UserOrders(order_table, user_id)
        behavior_rows == RowsOf(behavior_table, user_id)
    IN  IF user_orders = <<>> /\ behavior_rows = <<>>
        THEN NewUserProfile(user_id)
        ELSE LET decays == [i \in 1..Len(user_orders) |->
                               TimeDecay(now, user_orders[i].timestamp)]
                 skus == {user_orders[i].item_sku : i \in 1..Len(user_orders)}
                 keys == {CustomizationKeys[k] : k \in 1..Len(CustomizationKeys)}
             IN  [user_id |-> user_id, is_new_user |-> FALSE,
                  order_count |-> Len(user_orders),
                  decays |-> decays,
                  sku_scores |->
                      [sku \in skus |->
                          Sum([i \in 1..Len(user_orders) |->
                                  IF user_orders[i].item_sku = sku THEN decays[i] ELSE 0])],
                  customization_preference |->
                      [key \in {k \in keys : ValuesOf(user_orders, k) # <<>>} |->
                          PreferenceOf(user_orders, key)]]

NoProfile == NewUserProfile("")

\* POST /api/orders: record_order_async(order) inserts the row (timestamp is
\* the client's, or the time of the call when the client sends none)
RecordOrder(user_id, item, customization, timestamp) ==
    /\ orders' = Append(orders, OrderRow(user_id, item, customization, timestamp, clock))
    /\ UNCHANGED <<behaviors, profile, presets, cust_boost, order_boost, ranked, result, suggestion>>
    /\ UNCHANGED notBeh

\* POST /api/behavior: record_behavior_async(behavior) inserts the row with
\* time.time(); an "order" action also records the order
RecordBehavior(user_id, action, item, customization) ==
    /\ behaviors' = Append(behaviors, [user_id |-> user_id, action |-> action,
                                         item_sku |-> item.sku, category |-> item.category,
                                         tags |-> item.tags, timestamp |-> clock])
    /\ orders' = IF action = "order"
                 THEN Append(orders, OrderRow(user_id, item, customization, 0, clock))
                 ELSE orders
    /\ UNCHANGED <<profile, presets, cust_boost, order_boost, ranked, result, suggestion>>
    /\ UNCHANGED notBeh

\* GET /api/behavior/user/{user_id}: get_user_profile_async(user_id)
GetUserProfile(user_id) ==
    /\ profile' = UserProfile(orders, behaviors, user_id, clock)
    /\ UNCHANGED <<orders, behaviors, presets, cust_boost, order_boost, ranked, result, suggestion>>
    /\ UNCHANGED notBeh

\* The Chinese strings of the source are written in pinyin with the prefix
\* zh_ ("zh_bing" is the value of Temperature.ICED); str.upper() leaves them
\* as they are.
\* str.upper() on the strings the model uses
Upper(str) ==
    CASE str = "iced" -> "ICED"
      [] str = "hot" -> "HOT"
      [] str = "oat" -> "OAT"
      [] str = "none" -> "NONE"
      [] str = "None" -> "NONE"
      [] str = "MilkType.OAT" -> "MILKTYPE.OAT"
      [] str = "MilkType.WHOLE" -> "MILKTYPE.WHOLE"
      [] str = "SugarLevel.NONE" -> "SUGARLEVEL.NONE"
      [] str = "SugarLevel.STANDARD" -> "SUGARLEVEL.STANDARD"
      [] OTHER -> str

TEMP_MAP ==
    [HOT |-> <<"zh_re", "HOT">>, ICED |-> <<"zh_bing", "ICED">>, BLENDED |-> <<"zh_bingsha", "BLENDED">>]

SIZE_MAP ==
    [TALL |-> <<"zh_zhongbei", "TALL">>, GRANDE |-> <<"zh_dabei", "GRANDE">>,
     VENTI |-> <<"zh_chaodabei", "VENTI">>]

MILK_MAP ==
    [WHOLE |-> <<"zh_quanzhiniunai", "zh_quanzhinai", "WHOLE">>, SKIM |-> <<"zh_tuozhiniunai", "zh_tuozhinai", "SKIM">>,
     OAT |-> <<"zh_yanmainai", "OAT">>, SOY |-> <<"zh_dounai", "SOY">>,
     ALMOND |-> <<"zh_xingrennai", "ALMOND">>, COCONUT |-> <<"zh_yenai", "COCONUT">>]

SUGAR_MAP ==
    [NONE |-> <<"zh_wutang", "NONE">>, LIGHT |-> <<"zh_weitang", "zh_shaotang", "LIGHT">>,
     HALF |-> <<"zh_bantang", "HALF">>, STANDARD |-> <<"zh_quantang", "zh_biaozhuntang", "STANDARD">>,
     EXTRA |-> <<"zh_duotang", "EXTRA">>]

\* A value of an item's option list: what == compares it by (value) and what
\* str() gives (str). For a plain string both are the string; for a member
\* of a str-mixin Enum, value is the member's value and str its qualified name.
Plain2(value) == [value |-> value, str |-> value]
Member(value, name) == [value |-> value, str |-> name]

\* matches_preference(pref_value, item_values, mapping)
matches_preference(pref_value, item_values, mapping) ==
    IF item_values = <<>> THEN TRUE
    ELSE LET pref_variants == IF Upper(pref_value) \in DOMAIN mapping
                              THEN mapping[Upper(pref_value)] ELSE <<pref_value>>
         IN  \E v \in 1..Len(pref_variants), i \in 1..Len(item_values) :
                 \/ pref_variants[v] = item_values[i].value
                 \/ Upper(pref_variants[v]) = Upper(item_values[i].str)

\* a row of user_presets; "" is a column left NULL; timestamp is created_at
PresetRow(user_id, temperature, cup_size, sugar_level, milk_type, now) ==
    [user_id |-> user_id, default_temperature |-> temperature,
     default_cup_size |-> cup_size, default_sugar_level |-> sugar_level,
     default_milk_type |-> milk_type, timestamp |-> now]

\* get_user_presets_async(user_id): ORDER BY created_at DESC
UserPresets(table, user_id) == OrderByTimestampDesc(RowsOf(table, user_id))

\* preset_prefs: {dimension: {value: 0.9}} for the columns user_presets[0] sets
PresetWeight == 90
PresetPrefs(user_presets) ==
    IF user_presets = <<>> THEN [key \in {} |-> <<>>]
    ELSE LET preset == user_presets[1]
             column == [temperature |-> preset.default_temperature,
                        cup_size |-> preset.default_cup_size,
                        sugar_level |-> preset.default_sugar_level,
                        milk_type |-> preset.default_milk_type]
         IN  [key \in {k \in DOMAIN column : column[k] # ""} |->
                 <<[value |-> column[key], count |-> 0, ratio |-> PresetWeight]>>]

\* customization_pref.get(key, {})
PrefGet(customization_pref, key) ==
    IF key \in DOMAIN customization_pref THEN customization_pref[key] ELSE <<>>

\* max(pref.items(), key=lambda x: x[1])[0]: the first entry, in dict order,
\* whose ratio no other entry exceeds
PreferredValue(pref) ==
    LET best == CHOOSE i \in 1..Len(pref) :
                    /\ \A j \in 1..Len(pref) : pref[j].ratio <= pref[i].ratio
                    /\ \A j \in 1..(i - 1) : pref[j].ratio < pref[i].ratio
    IN  pref[best].value

\* Dimension factors are in hundredths (1.15 is 115); their product is in
\* units of 1/CustOne
FactorOne == 100
CustOne == FactorOne * FactorOne * FactorOne * FactorOne

\* the option lists of an item as get_customization_based_boost receives them:
\* has_constraints is item_constraints not being None
BoostItem(temperatures, sizes, has_constraints, milk_types, sugar_levels) ==
    [item_available_temperatures |-> temperatures, item_available_sizes |-> sizes,
     has_constraints |-> has_constraints,
     available_milk_types |-> milk_types, available_sugar_levels |-> sugar_levels]

temperature_match(customization_pref, item) ==
    LET temp_pref == PrefGet(customization_pref, "temperature")
    IN  IF temp_pref # <<>> /\ item.item_available_temperatures # <<>>
        THEN IF matches_preference(PreferredValue(temp_pref),
                                   item.item_available_temperatures, TEMP_MAP)
             THEN 115 ELSE 90
        ELSE FactorOne

size_match(customization_pref, item) ==
    LET size_pref == PrefGet(customization_pref, "cup_size")
    IN  IF size_pref # <<>> /\ item.item_available_sizes # <<>>
        THEN IF matches_preference(PreferredValue(size_pref),
                                   item.item_available_sizes, SIZE_MAP)
             THEN 110 ELSE 95
        ELSE FactorOne

milk_match(customization_pref, item) ==
    LET milk_pref == PrefGet(customization_pref, "milk_type")
    IN  IF milk_pref # <<>> /\ item.has_constraints
        THEN IF item.available_milk_types # <<>>
             THEN IF matches_preference(PreferredValue(milk_pref),
                                        item.available_milk_types, MILK_MAP)
                  THEN 120 ELSE 85
             ELSE IF Upper(PreferredValue(milk_pref)) # "NONE" THEN 95 ELSE 105
        ELSE FactorOne

sugar_match(customization_pref, item) ==
    LET sugar_pref == PrefGet(customization_pref, "sugar_level")
    IN  IF sugar_pref # <<>> /\ item.has_constraints
        THEN IF item.available_sugar_levels # <<>>
             THEN IF matches_preference(PreferredValue(sugar_pref),
                                        item.available_sugar_levels, SUGAR_MAP)
                  THEN 115 ELSE 90
             ELSE FactorOne
        ELSE FactorOne

\* total_boost = max(0.8, min(1.5, total_boost))
CustFloor == (8 * CustOne) \div 10
CustCap == (15 * CustOne) \div 10

\* a matcher that returns the product of the factors as it is
ClampCustomizationNone(total_boost) == total_boost

ClampCustomization(total_boost) == Max2(CustFloor, Min2(CustCap, total_boost))

\* round(total_boost, 3), in thousandths. The float product of the factors
\* need not be the exact decimal: on an exact tie either neighbour may result.
Round3(total_boost) ==
    LET step == CustOne \div 1000
        q == total_boost \div step
        r == total_boost % step
    IN  IF 2 * r < step THEN {q}
        ELSE IF 2 * r > step THEN {q + 1}
        ELSE {q, q + 1}

NeutralFactors ==
    [temperature_match |-> FactorOne, size_match |-> FactorOne,
     milk_match |-> FactorOne, sugar_match |-> FactorOne]

\* get_customization_based_boost_async up to the rounding: the factors, their
\* product (raw) and the clamped product (clamped)
CustomizationBoost(user_profile, user_presets, item) ==
    LET has_preset == user_presets # <<>>
        preset_prefs == PresetPrefs(user_presets)
        customization_pref ==
            IF DOMAIN user_profile.customization_preference = {} /\ DOMAIN preset_prefs # {}
            THEN preset_prefs ELSE user_profile.customization_preference
    IN  IF (user_profile.is_new_user /\ ~has_preset) \/ DOMAIN customization_pref = {}
        THEN [factors |-> NeutralFactors, raw |-> CustOne, clamped |-> CustOne,
              early |-> TRUE]
        ELSE LET factors == [temperature_match |-> temperature_match(customization_pref, item),
                             size_match |-> size_match(customization_pref, item),
                             milk_match |-> milk_match(customization_pref, item),
                             sugar_match |-> sugar_match(customization_pref, item)]
                 raw == factors.temperature_match * factors.size_match
                        * factors.milk_match * factors.sugar_match
             IN  [factors |-> factors, raw |-> raw, clamped |-> ClampCustomization(raw),
                  early |-> FALSE]

NoCustBoost ==
    [user_id |-> "", item |-> BoostItem(<<>>, <<>>, FALSE, <<>>, <<>>),
     factors |-> NeutralFactors, raw |-> CustOne, total_boost |-> 1000, early |-> TRUE]

\* POST /api/presets: create_preset_async(preset)
CreatePreset(user_id, temperature, cup_size, sugar_level, milk_type) ==
    /\ presets' = Append(presets, PresetRow(user_id, temperature, cup_size,
                                            sugar_level, milk_type, clock))
    /\ UNCHANGED <<orders, behaviors, profile, cust_boost, order_boost, ranked, result, suggestion>>
    /\ UNCHANGED notBeh

\* get_customization_based_boost_async(user_id, item_constraints,
\* item_available_temperatures, item_available_sizes)
GetCustomizationBoost(user_id, item) ==
    LET b == CustomizationBoost(UserProfile(orders, behaviors, user_id, clock),
                                UserPresets(presets, user_id), item)
    IN  /\ \E total_boost \in Round3(b.clamped) :
              cust_boost' = [user_id |-> user_id, item |-> item, factors |-> b.factors,
                             raw |-> b.raw, total_boost |-> total_boost, early |-> b.early]
        /\ UNCHANGED <<orders, behaviors, profile, presets, order_boost, ranked, result, suggestion>>
        /\ UNCHANGED notBeh

\* Exact fractions for the products of decimal factors
Frac(n, d) == LET g == Gcd(n, d) IN [num |-> n \div g, den |-> d \div g]

FracOne == Frac(1, 1)

FracMul(a, b) ==
    LET g1 == Gcd(a.num, b.den)
        g2 == Gcd(b.num, a.den)
    IN  [num |-> (a.num \div g1) * (b.num \div g2),
         den |-> (a.den \div g2) * (b.den \div g1)]

\* a <= b, the common factors taken out before the cross product
FracLeq(a, b) ==
    LET g == Gcd(a.den, b.den)
        h == IF a.num = 0 \/ b.num = 0 THEN 1 ELSE Gcd(a.num, b.num)
    IN  (a.num \div h) * (b.den \div g) <= (b.num \div h) * (a.den \div g)

\* round(x, 3) of a fraction, in thousandths; on an exact tie the float that
\* stands for the fraction may fall on either side
Round3Frac(x) ==
    LET q == (x.num * 1000) \div x.den
        r == (x.num * 1000) % x.den
    IN  IF 2 * r < x.den THEN {q}
        ELSE IF 2 * r > x.den THEN {q + 1}
        ELSE {q, q + 1}

\* the number of places of list that hold x
Occurrences(x, list) == Cardinality({j \in 1..Len(list) : list[j] = x})

\* total_boost = min(total_boost, 3.0)
OrderBoostCap == Frac(3, 1)
ClampOrderBoost(total_boost) ==
    IF FracLeq(total_boost, OrderBoostCap) THEN total_boost ELSE OrderBoostCap

NeutralOrderBoost ==
    [repurchase |-> FracOne, category |-> FracOne, tag |-> FracOne,
     price_match |-> FracOne, raw |-> FracOne, clamped |-> FracOne]

\* get_order_based_recommendation_boost_async at time now, up to the
\* rounding: the four factors, their product (raw) and min(raw, 3.0)
OrderBoost(user_orders, item_sku, item_category, item_tags, item_price, now) ==
    IF user_orders = <<>> THEN NeutralOrderBoost
    ELSE
    LET n == Len(user_orders)
        decay == [i \in 1..n |-> TimeDecay(now, user_orders[i].timestamp)]
        \* repurchase_score += decay * 0.25, in units of 1/(4 * DecayOne)
        repurchase_score ==
            Sum([i \in 1..n |-> IF user_orders[i].item_sku = item_sku THEN decay[i] ELSE 0])
        repurchase ==
            Frac(4 * DecayOne + Min2(repurchase_score, 4 * DecayOne), 4 * DecayOne)
        total_cat ==
            Sum([i \in 1..n |-> IF user_orders[i].category # "" THEN decay[i] ELSE 0])
        item_cat ==
            Sum([i \in 1..n |->
                    IF user_orders[i].category # "" /\ user_orders[i].category = item_category
                    THEN decay[i] ELSE 0])
        category ==
            IF total_cat > 0 /\ item_cat > 0
            THEN Frac(2 * total_cat + item_cat, 2 * total_cat) ELSE FracOne
        tag_score(tag) ==
            Sum([i \in 1..n |-> decay[i] * Occurrences(tag, user_orders[i].tags)])
        total_tag == Sum([i \in 1..n |-> decay[i] * Len(user_orders[i].tags)])
        matched_score == Sum([k \in 1..Len(item_tags) |-> tag_score(item_tags[k])])
        tag ==
            IF total_tag > 0 /\ matched_score > 0
            THEN Frac(5 * total_tag + 2 * matched_score, 5 * total_tag) ELSE FracOne
        order_prices ==
            SelectSeq([i \in 1..n |-> user_orders[i].base_price], LAMBDA price : price # 0)
        price_sum == Sum(order_prices)
        price_match ==
            IF item_price # 0 /\ order_prices # <<>>
            THEN IF 7 * price_sum <= 10 * item_price * Len(order_prices)
                    /\ 10 * item_price * Len(order_prices) <= 15 * price_sum
                 THEN Frac(11, 10)
                 ELSE IF 10 * item_price * Len(order_prices) < 7 * price_sum
                 THEN Frac(95, 100)
                 ELSE Frac(9, 10)
            ELSE FracOne
        raw == FracMul(FracMul(repurchase, category), FracMul(tag, price_match))
    IN  [repurchase |-> repurchase, category |-> category, tag |-> tag,
         price_match |-> price_match, raw |-> raw, clamped |-> ClampOrderBoost(raw)]

\* get_order_based_recommendation_boost: with an event loop running in the
\* calling thread the neutral answer is returned, else the async version runs
OrderBoostSync(in_loop, user_orders, item_sku, item_category, item_tags, item_price, now) ==
    IF in_loop THEN NeutralOrderBoost
    ELSE OrderBoost(user_orders, item_sku, item_category, item_tags, item_price, now)

\* get_user_profile: with an event loop running the new-user profile is
\* returned, else the async version runs
UserProfileSync(in_loop, order_table, behavior_table, user_id, now) ==
    IF in_loop THEN NewUserProfile(user_id)
    ELSE UserProfile(order_table, behavior_table, user_id, now)

-----------------------------------------------------------------------------
(* The menu and the factors recommend_v2 gives a candidate                 *)

\* the values of the enums of models.py
CategoryValue ==
    [COFFEE |-> "zh_kafei", TEA |-> "zh_chayin", FRAPPUCCINO |-> "zh_xingbingle",
     REFRESHERS |-> "zh_qingshuangxilie", FOOD |-> "zh_shipin"]

TemperatureValue ==
    [EXTRA_HOT |-> "zh_tebiere", HOT |-> "zh_re", WARM |-> "zh_weire", ICED |-> "zh_bing",
     LESS_ICE |-> "zh_shaobing", NO_ICE |-> "zh_qubing", FULL_ICE |-> "zh_quanbing"]

CupSizeValue == [TALL |-> "zh_zhongbei", GRANDE |-> "zh_dabei", VENTI |-> "zh_chaodabei"]

SugarLevelValue ==
    [FULL |-> "zh_jingdiantang", ZERO_CAL |-> "zh_0reliangdaitang",
     NONE |-> "zh_bulingwaijiatang", LESS |-> "zh_shaotian", STANDARD |-> "zh_biaozhuntian"]

MilkTypeValue ==
    [WHOLE |-> "zh_quanzhiniunai", SKIM |-> "zh_tuozhiniunai", OAT |-> "zh_yanmainai",
     ALMOND |-> "zh_badanmunai", SOY |-> "zh_dounai", COCONUT |-> "zh_yenai",
     NONE |-> "zh_bujianai"]

\* a MenuItem: option lists hold enum member names; has_constraints is
\* customization_constraints not being None; an empty milk or sugar list is
\* a list the constraints leave None
MenuItem(sku, category, base_price, temperatures, sizes, tags, is_new, is_seasonal, has_constraints, sugar_levels, milk_types) ==
    [sku |-> sku, category |-> category, base_price |-> base_price,
     available_temperatures |-> temperatures, available_sizes |-> sizes, tags |-> tags,
     is_new |-> is_new, is_seasonal |-> is_seasonal, has_constraints |-> has_constraints,
     available_sugar_levels |-> sugar_levels, available_milk_types |-> milk_types]

COF003 ==
    MenuItem("COF003", "COFFEE", 35,
             <<"EXTRA_HOT", "HOT", "WARM", "ICED", "LESS_ICE", "NO_ICE", "FULL_ICE">>,
             <<"TALL", "GRANDE", "VENTI">>,
             <<"zh_jingdian", "zh_naixiang", "zh_renqi", "zh_0tangfengweikexuan">>,
             FALSE, FALSE, TRUE,
             <<"FULL", "ZERO_CAL", "NONE">>, <<"WHOLE", "ALMOND", "OAT", "SKIM">>)

COF012 ==
    MenuItem("COF012", "COFFEE", 40, <<"ICED", "LESS_ICE", "NO_ICE">>,
             <<"TALL", "GRANDE", "VENTI">>,
             <<"zh_shengye", "zh_zhiwuji", "zh_wanghong", "zh_qingshuang", "zh_xiari">>,
             TRUE, FALSE, TRUE, <<"NONE", "ZERO_CAL">>, <<"COCONUT">>)

TEA003 ==
    MenuItem("TEA003", "TEA", 34, <<"ICED", "LESS_ICE", "NO_ICE">>, <<"GRANDE", "VENTI">>,
             <<"zh_guoxiang", "zh_qingshuang", "zh_xiari", "zh_xianding">>,
             FALSE, TRUE, TRUE, <<"FULL", "ZERO_CAL", "LESS">>, <<>>)

FOO003 ==
    MenuItem("FOO003", "FOOD", 24, <<>>, <<>>, <<"zh_xiandian", "zh_zaocan", "zh_renqi">>,
             FALSE, FALSE, FALSE, <<>>, <<>>)

MenuItems == {COF003, COF012, TEA003, FOO003}

\* [t.value for t in item.available_temperatures], [s.value for s in
\* item.available_sizes] and item.customization_constraints.model_dump(),
\* whose lists hold the enum members
ToBoostItem(item) ==
    BoostItem([i \in 1..Len(item.available_temperatures) |->
                  Plain2(TemperatureValue[item.available_temperatures[i]])],
              [i \in 1..Len(item.available_sizes) |->
                  Plain2(CupSizeValue[item.available_sizes[i]])],
              item.has_constraints,
              [i \in 1..Len(item.available_milk_types) |->
                  Member(MilkTypeValue[item.available_milk_types[i]],
                         "MilkType." \o item.available_milk_types[i])],
              [i \in 1..Len(item.available_sugar_levels) |->
                  Member(SugarLevelValue[item.available_sugar_levels[i]],
                         "SugarLevel." \o item.available_sugar_levels[i])])

\* the arguments of get_suggested_customization_for_item_async that describe
\* the item: the option lists as for the boost, and the defaults of
\* item_constraints as their values ("" is None)
SuggestItem(options, default_temperature, default_sugar_level, default_milk_type) ==
    [options |-> options, default_temperature |-> default_temperature,
     default_sugar_level |-> default_sugar_level, default_milk_type |-> default_milk_type]

\* pref.get(value, 0)
RatioIn(pref, value) ==
    IF \E i \in 1..Len(pref) : pref[i].value = value
    THEN pref[CHOOSE i \in 1..Len(pref) : pref[i].value = value].ratio
    ELSE 0

\* merged_pref: per key, the order-history preference if there is one, else
\* the preset's (the keys extra_shot and whipped_cream are left out)
MergedPref(customization_preference, preset_prefs) ==
    LET keys == {CustomizationKeys[k] : k \in 1..Len(CustomizationKeys)}
    IN  [key \in {k \in keys : PrefGet(customization_preference, k) # <<>>
                                 \/ PrefGet(preset_prefs, k) # <<>>} |->
            IF PrefGet(customization_preference, key) # <<>>
            THEN customization_preference[key] ELSE preset_prefs[key]]

\* sorted(pref.items(), key=lambda x: -x[1]): entry put into a list already
\* sorted that way (sorted is stable)
RECURSIVE InsertByRatioDesc(_, _)
InsertByRatioDesc(sorted, entry) ==
    IF sorted = <<>> THEN <<entry>>
    ELSE IF Head(sorted).ratio >= entry.ratio
    THEN <<Head(sorted)>> \o InsertByRatioDesc(Tail(sorted), entry)
    ELSE <<entry>> \o sorted

RECURSIVE SortByRatioDesc(_)
SortByRatioDesc(pref) ==
    IF pref = <<>> THEN <<>>
    ELSE InsertByRatioDesc(SortByRatioDesc(SubSeq(pref, 1, Len(pref) - 1)), pref[Len(pref)])

\* value.upper() in [v.upper() for v in available] or value in available
\* (a member of a str-mixin Enum compares and upper-cases as its value)
IsAvailable(value, available) ==
    \E i \in 1..Len(available) :
        Upper(value) = Upper(available[i].value) \/ value = available[i].value

\* the for ... else loops: the first preferred value, most frequent first,
\* that the item's list has; "" when the loop ends without a break
FirstAvailable(pref, available) ==
    LET sorted == SortByRatioDesc(pref)
        found == {i \in 1..Len(sorted) : IsAvailable(sorted[i].value, available)}
    IN  IF found = {} THEN ""
        ELSE sorted[CHOOSE i \in found : \A j \in found : i <= j].value

\* suggested["temperature"]: the available temperature with the highest
\* temp_pref.get(temp, 0) + temp_pref.get(temp.upper(), 0), the first listed
\* among equals (no weather_context is passed). combined_temp_scores has an
\* entry per available temperature, so the branch that reads
\* default_temperature is taken only for an empty list, which the outer
\* condition excludes.
SuggestedTemperature(temp_pref, item) ==
    LET temps == item.options.item_available_temperatures
        score == [i \in 1..Len(temps) |->
                     RatioIn(temp_pref, temps[i].value)
                         + RatioIn(temp_pref, Upper(temps[i].value))]
        best == CHOOSE i \in 1..Len(temps) :
                    /\ \A j \in 1..Len(temps) : score[j] <= score[i]
                    /\ \A j \in 1..(i - 1) : score[j] < score[i]
    IN  IF temps = <<>> THEN "" ELSE temps[best].value

\* suggested["cup_size"]
SuggestedSize(size_pref, item) ==
    LET sizes == item.options.item_available_sizes
    IN  IF sizes = <<>> THEN ""
        ELSE IF FirstAvailable(size_pref, sizes) # "" THEN FirstAvailable(size_pref, sizes)
        ELSE "GRANDE"

\* suggested["sugar_level"] and suggested["milk_type"]: the first preferred
\* value the list has, else the default of the constraints, else the first
\* listed option; "" when the key is not set
SuggestedOption(pref, has_constraints, available, default) ==
    IF ~has_constraints \/ available = <<>> THEN ""
    ELSE IF FirstAvailable(pref, available) # "" THEN FirstAvailable(pref, available)
    ELSE IF default # "" THEN default
    ELSE available[1].value

\* suggested_customization of get_suggested_customization_for_item_async
SuggestedCustomization(user_profile, user_presets, item) ==
    LET customization_pref ==
            MergedPref(user_profile.customization_preference, PresetPrefs(user_presets))
    IN  [temperature |-> SuggestedTemperature(PrefGet(customization_pref, "temperature"), item),
         cup_size |-> SuggestedSize(PrefGet(customization_pref, "cup_size"), item),
         sugar_level |->
             SuggestedOption(PrefGet(customization_pref, "sugar_level"),
                             item.options.has_constraints,
                             item.options.available_sugar_levels, item.default_sugar_level),
         milk_type |->
             SuggestedOption(PrefGet(customization_pref, "milk_type"),
                             item.options.has_constraints,
                             item.options.available_milk_types, item.default_milk_type)]

NoSuggestion ==
    [user_id |-> "", item |-> SuggestItem(BoostItem(<<>>, <<>>, FALSE, <<>>, <<>>), "", "", ""),
     suggested |-> Customization("", "", "", "")]

\* get_suggested_customization_for_item_async(user_id, item_sku,
\* item_constraints, item_available_temperatures, item_available_sizes,
\* item_base_price)
GetSuggestedCustomization(user_id, item) ==
    /\ suggestion' =
           [user_id |-> user_id, item |-> item,
            suggested |-> SuggestedCustomization(UserProfile(orders, behaviors, user_id, clock),
                                                 UserPresets(presets, user_id), item)]
    /\ UNCHANGED <<orders, behaviors, profile, presets, cust_boost, order_boost, ranked, result>>
    /\ UNCHANGED notBeh

\* the request context: "" is a key the dict does not have
Context(time_of_day, season, day_type) ==
    [time_of_day |-> time_of_day, season |-> season, day_type |-> day_type]

\* x *= factor when the condition holds
Times(x, condition, n, d) == IF condition THEN FracMul(x, Frac(n, d)) ELSE x

\* rule_multiplier of recommend_v2 for one candidate
RuleMultiplier(item, avoid_keywords, context) ==
    LET r1 == Times(FracOne, item.is_new, 115, 100)
        r2 == Times(r1, item.is_seasonal, 110, 100)
        r3 == Times(r2, \E t \in 1..Len(item.tags) : InList(item.tags[t], avoid_keywords),
                    50, 100)
        tod == context.time_of_day
        \* time of day
        t1 == Times(r3, tod = "morning" /\ item.category = "COFFEE", 115, 100)
        t2 == Times(t1, tod = "morning" /\ item.category = "FOOD"
                         /\ InList("zh_zaocan", item.tags), 120, 100)
        t3 == Times(t2, tod = "lunch" /\ item.category = "FOOD", 110, 100)
        t4 == Times(t3, tod = "afternoon" /\ item.category = "TEA", 110, 100)
        t5 == Times(t4, tod = "afternoon" /\ item.category = "FRAPPUCCINO", 110, 100)
        t6 == Times(t5, tod = "evening" /\ InList("zh_wukafeiyin", item.tags), 115, 100)
        t7 == Times(t6, tod = "evening" /\ item.category = "COFFEE", 90, 100)
        t8 == Times(t7, tod = "night" /\ item.category = "COFFEE", 80, 100)
        \* season
        s1 == Times(t8, context.season = "summer"
                         /\ InList("ICED", item.available_temperatures), 110, 100)
        s2 == Times(s1, context.season = "summer"
                         /\ (InList("zh_qingshuang", item.tags)
                             \/ InList("zh_bingshuang", item.tags)), 110, 100)
        s3 == Times(s2, context.season = "winter"
                         /\ InList("HOT", item.available_temperatures), 110, 100)
        s4 == Times(s3, context.season = "winter" /\ InList("zh_wennuan", item.tags),
                    110, 100)
        \* weekend
        w1 == Times(s4, context.day_type = "weekend" /\ (item.is_new \/ item.is_seasonal),
                    110, 100)
    IN  w1

\* cold_start_boost of recommend_v2 for one candidate of a user whose profile
\* says is_new_user
ColdStartBoost(item) ==
    LET c1 == Times(FracOne, item.is_new, 120, 100)
        c2 == Times(c1, item.is_seasonal, 115, 100)
        c3 == Times(c2, InList("zh_renqi", item.tags), 115, 100)
        c4 == Times(c3, InList("zh_jingdian", item.tags), 110, 100)
    IN  c4

NoOrderBoost ==
    [user_id |-> "", item_sku |-> "", factors |-> NeutralOrderBoost, total_boost |-> 1000]

NoRanked ==
    [sku |-> "", algorithm_variant |-> "", rule_multiplier |-> FracOne,
     behavior_multiplier |-> 1000, session_multiplier |-> BoostOne,
     customization_multiplier |-> 1000, cold_start_boost |-> FracOne,
     is_cold_start |-> FALSE]

\* GET /api/orders/boost/{user_id}/{item_sku}: the boost of a menu item
GetOrderBoost(user_id, item) ==
    LET b == OrderBoost(UserOrders(orders, user_id), item.sku, CategoryValue[item.category],
                        item.tags, item.base_price, clock)
    IN  /\ \E total_boost \in Round3Frac(b.clamped) :
              order_boost' = [user_id |-> user_id, item_sku |-> item.sku, factors |-> b,
                              total_boost |-> total_boost]
        /\ UNCHANGED <<orders, behaviors, profile, presets, cust_boost, ranked, result, suggestion>>
        /\ UNCHANGED notBeh

\* One turn of the re-ranking loop of recommend_v2, with the two get_variant
\* calls that precede the loop. in_loop: an event loop is running in the
\* calling thread, as it is under POST /api/embedding/recommend/v2.
ScoreCandidate(in_loop, user_id, session_id, item, avoid_keywords, context, enable_ab_test, enable_behavior, enable_session) ==
    LET cache == IF experiments_cache = EmptyDict /\ ~in_loop
                 THEN AfterInit.cache ELSE experiments_cache
        rec_variant ==
            IF enable_ab_test
            THEN AssignVariant(CacheGet(cache, "rec_algorithm"), "rec_algorithm", user_id)
            ELSE "hybrid"
        has_context == context # Context("", "", "")
        rule_multiplier ==
            RuleMultiplier(item, avoid_keywords,
                           IF has_context THEN context ELSE Context("", "", ""))
        order_detail ==
            OrderBoostSync(in_loop, UserOrders(orders, user_id), item.sku,
                           CategoryValue[item.category], item.tags, item.base_price, clock)
        uses_behavior == enable_behavior /\ rec_variant \in {"embedding_plus", "hybrid"}
        session_multiplier ==
            IF enable_session /\ rec_variant = "hybrid"
            THEN SessionBoostOf(sessions, session_id, item.tags,
                                CategoryValue[item.category], item.base_price)
            ELSE BoostOne
        cust == CustomizationBoost(UserProfile(orders, behaviors, user_id, clock),
                                   UserPresets(presets, user_id), ToBoostItem(item))
        uses_customization == enable_behavior /\ rec_variant = "hybrid"
        is_cold_start ==
            enable_behavior
            /\ UserProfileSync(in_loop, orders, behaviors, user_id, clock).is_new_user
    IN  /\ \E behavior_multiplier \in
                 (IF uses_behavior THEN Round3Frac(order_detail.clamped) ELSE {1000}),
               customization_multiplier \in
                 (IF uses_customization THEN Round3(cust.clamped) ELSE {1000}) :
              ranked' = [sku |-> item.sku, algorithm_variant |-> rec_variant,
                         rule_multiplier |-> rule_multiplier,
                         behavior_multiplier |-> behavior_multiplier,
                         session_multiplier |-> session_multiplier,
                         customization_multiplier |-> customization_multiplier,
                         cold_start_boost |->
                             IF is_cold_start THEN ColdStartBoost(item) ELSE FracOne,
                         is_cold_start |-> is_cold_start]
        /\ IF enable_ab_test
           THEN /\ experiments_cache' = cache
                /\ db_experiments' =
                       IF experiments_cache = EmptyDict /\ ~in_loop
                       THEN AfterInit.db ELSE db_experiments
                /\ initialized' = (initialized \/ (experiments_cache = EmptyDict /\ ~in_loop))
                /\ ab_result' = ResultOf(cache, db_experiments, "reason_style", user_id, "sync")
           ELSE UNCHANGED abVars
        /\ UNCHANGED <<orders, behaviors, profile, presets, cust_boost, order_boost, result, suggestion>>
        /\ UNCHANGED <<sessVars, cartVars>>

-----------------------------------------------------------------------------
(* recommend_v2 as a whole: scoring loop, sort, top K                      *)

\* what a ranking request asks for: the context, the persona's avoided
\* keywords and the enable_ab_test, enable_behavior and enable_session flags
RankRequest(context, avoid_keywords, enable_ab_test, enable_behavior, enable_session) ==
    [context |-> context, avoid_keywords |-> avoid_keywords,
     enable_ab_test |-> enable_ab_test, enable_behavior |-> enable_behavior,
     enable_session |-> enable_session]

\* one entry of candidates: a menu item and its similarity (a fraction)
Candidate(item, similarity) == [item |-> item, similarity |-> similarity]

\* rec_variant = experiment_info.get("rec_algorithm", {}).get("variant", "hybrid")
RecVariant(cache, enable_ab_test, user_id) ==
    IF enable_ab_test
    THEN AssignVariant(CacheGet(cache, "rec_algorithm"), "rec_algorithm", user_id)
    ELSE "hybrid"

\* if enable_behavior and rec_variant in ["embedding_plus", "hybrid"]
UsesBehavior(enable_behavior, rec_variant) ==
    enable_behavior /\ rec_variant \in {"embedding_plus", "hybrid"}

\* a session branch that ignores the variant
UsesSessionAnyVariant(enable_session, rec_variant) == enable_session

\* if enable_session and rec_variant == "hybrid"
UsesSession(enable_session, rec_variant) == enable_session /\ rec_variant = "hybrid"

\* if enable_behavior and rec_variant == "hybrid"
UsesCustomization(enable_behavior, rec_variant) == enable_behavior /\ rec_variant = "hybrid"

\* the value round() gives when the float may fall on either side of a tie
PickRound(values, tie) ==
    IF tie = "up" THEN CHOOSE v \in values : \A w \in values : w <= v
    ELSE CHOOSE v \in values : \A w \in values : v <= w

\* a product that leaves the session multiplier out
FinalScoreNoSession(base_score, rule_multiplier, behavior_multiplier, session_multiplier, customization_multiplier, cold_start_boost) ==
    FracMul(FracMul(FracMul(FracMul(base_score, rule_multiplier),
                            Frac(behavior_multiplier, 1000)),
                    Frac(customization_multiplier, 1000)),
            cold_start_boost)

\* final_score = base_score * rule_multiplier * behavior_multiplier
\*               * session_multiplier * customization_multiplier * cold_start_boost
FinalScore(base_score, rule_multiplier, behavior_multiplier, session_multiplier, customization_multiplier, cold_start_boost) ==
    FracMul(FracMul(FracMul(FracMul(FracMul(base_score, rule_multiplier),
                                    Frac(behavior_multiplier, 1000)),
                            Frac(session_multiplier, BoostOne)),
                    Frac(customization_multiplier, 1000)),
            cold_start_boost)

\* the table get_session_boost leaves behind if it fetched the session with
\* get_or_create_session
SessionsAfterBoostCreating(table, sid, now) == GetOrCreate(table, sid, "", now)

\* the table get_session_boost leaves behind: self.sessions.get(session_id)
\* reads it and nothing is stored
SessionsAfterBoost(table, sid, now) == table

\* One turn of the re-ranking loop: the entry appended to reranked for one
\* candidate. q is the request (context, avoid_keywords, enable flags).
Reranked(in_loop, tie, rec_variant, user_id, session_id, candidate, q) ==
    LET item == candidate.item
        rule_multiplier == RuleMultiplier(item, q.avoid_keywords, q.context)
        order_detail ==
            OrderBoostSync(in_loop, UserOrders(orders, user_id), item.sku,
                           CategoryValue[item.category], item.tags, item.base_price, clock)
        behavior_multiplier ==
            IF UsesBehavior(q.enable_behavior, rec_variant)
            THEN PickRound(Round3Frac(order_detail.clamped), tie) ELSE 1000
        session_multiplier ==
            IF UsesSession(q.enable_session, rec_variant)
            THEN SessionBoostOf(sessions, session_id, item.tags,
                                CategoryValue[item.category], item.base_price)
            ELSE BoostOne
        cust == CustomizationBoost(UserProfile(orders, behaviors, user_id, clock),
                                   UserPresets(presets, user_id), ToBoostItem(item))
        customization_multiplier ==
            IF UsesCustomization(q.enable_behavior, rec_variant)
            THEN PickRound(Round3(cust.clamped), tie) ELSE 1000
        is_cold_start ==
            q.enable_behavior
            /\ UserProfileSync(in_loop, orders, behaviors, user_id, clock).is_new_user
        cold_start_boost == IF is_cold_start THEN ColdStartBoost(item) ELSE FracOne
    IN  [sku |-> item.sku, item |-> item,
         base_score |-> candidate.similarity,
         rule_multiplier |-> rule_multiplier,
         behavior_multiplier |-> behavior_multiplier,
         session_multiplier |-> session_multiplier,
         customization_multiplier |-> customization_multiplier,
         cold_start_boost |-> cold_start_boost,
         is_cold_start |-> is_cold_start,
         final_score |-> FinalScore(candidate.similarity, rule_multiplier,
                                    behavior_multiplier, session_multiplier,
                                    customization_multiplier, cold_start_boost),
         algorithm_variant |-> rec_variant]

\* reranked.sort(key=lambda x: x["final_score"], reverse=True): entry put
\* into a list already in that order; list.sort is stable, also when
\* reversed, so an entry goes behind the entries of equal final_score
RECURSIVE InsertByFinalScoreDesc(_, _)
InsertByFinalScoreDesc(sorted, entry) ==
    IF sorted = <<>> THEN <<entry>>
    ELSE IF FracLeq(entry.final_score, Head(sorted).final_score)
    THEN <<Head(sorted)>> \o InsertByFinalScoreDesc(Tail(sorted), entry)
    ELSE <<entry>> \o sorted

\* a sort that leaves the list in recall order
SortKeepsRecallOrder(reranked) == reranked

RECURSIVE SortByFinalScoreDesc(_)
SortByFinalScoreDesc(reranked) ==
    IF reranked = <<>> THEN <<>>
    ELSE InsertByFinalScoreDesc(SortByFinalScoreDesc(SubSeq(reranked, 1, Len(reranked) - 1)),
                                reranked[Len(reranked)])

\* candidates[:top_k * 2]
Recalled(candidates, top_k) == SubSeq(candidates, 1, Min2(Len(candidates), top_k * 2))

NoRecommendation ==
    [status |-> "none", in_loop |-> FALSE, tie |-> "", fault |-> "", user_id |-> "",
     session_id |-> "", candidates |-> <<>>, top_k |-> 0,
     request |-> RankRequest(Context("", "", ""), <<>>, FALSE, FALSE, FALSE),
     read |-> <<>>, reranked |-> <<>>, recommendations |-> <<>>]

\* What recommend_v2 returns for a request q, given the cache get_variant
\* reads. fault = "customization": get_customization_based_boost raises
\* (future.result(timeout=10) times out, or the coroutine run in the worker
\* thread fails); nothing in recommend_v2 or in the handler catches it.
\* read: the session table and the order, behavior and preset rows that the
\* sub-scores of this call were computed from.
RecommendV2Result(cache, in_loop, tie, fault, user_id, session_id, candidates, top_k, q) ==
    LET rec_variant == RecVariant(cache, q.enable_ab_test, user_id)
        recalled == Recalled(candidates, top_k)
        reranked == [i \in 1..Len(recalled) |->
                        Reranked(in_loop, tie, rec_variant, user_id, session_id,
                                 recalled[i], q)]
        sorted == SortByFinalScoreDesc(reranked)
        raises == /\ fault = "customization"
                  /\ UsesCustomization(q.enable_behavior, rec_variant)
                  /\ recalled # <<>>
    IN  [status |-> IF raises THEN "error" ELSE "ok",
         in_loop |-> in_loop, tie |-> tie, fault |-> fault,
         user_id |-> user_id, session_id |-> session_id,
         candidates |-> candidates, top_k |-> top_k, request |-> q,
         read |-> <<sessions, orders, behaviors, presets>>,
         reranked |-> IF raises THEN <<>> ELSE reranked,
         recommendations |->
             IF raises THEN <<>> ELSE SubSeq(sorted, 1, Min2(top_k, Len(sorted)))]

\* POST /api/embedding/recommend/v2: recommend_v2 with the two get_variant
\* calls that precede the loop (they load the experiments only when no event
\* loop is running). The service methods it calls for each candidate and
\* each returned item read the tables and write none: profile, cust_boost,
\* order_boost and suggestion, which hold the answer to the last direct call
\* of those methods, stay as they are.
RecommendV2(in_loop, tie, fault, user_id, session_id, candidates, top_k, q) ==
    LET loads == q.enable_ab_test /\ experiments_cache = EmptyDict /\ ~in_loop
        cache == IF loads THEN AfterInit.cache ELSE experiments_cache
    IN  /\ result' = RecommendV2Result(cache, in_loop, tie, fault, user_id, session_id,
                                       candidates, top_k, q)
        /\ IF q.enable_ab_test
           THEN /\ experiments_cache' = cache
                /\ db_experiments' = IF loads THEN AfterInit.db ELSE db_experiments
                /\ initialized' = (initialized \/ loads)
                /\ ab_result' = ResultOf(cache, db_experiments, "reason_style", user_id, "sync")
           ELSE UNCHANGED abVars
        /\ sessions' =
               IF UsesSession(q.enable_session, RecVariant(cache, q.enable_ab_test, user_id))
                  /\ candidates # <<>>
               THEN SessionsAfterBoost(sessions, session_id, clock) ELSE sessions
        /\ UNCHANGED <<clock, inflight, served, session_boost>>
        /\ UNCHANGED <<orders, behaviors, profile, presets, cust_boost, order_boost, ranked,
                     suggestion>>
        /\ UNCHANGED cartVars

-----------------------------------------------------------------------------
(* The cart service: carts, and checkout as the coroutine the handler runs *)

CartSessions == {"s1", "s2"}
CheckoutRequests == {"r1", "r2"}

\* _generate_order_id: f"ORD{int(time.time())}{random.randint(100, 999)}";
\* two ids drawn within one second are equal or different
OrderIds == {"ORD_100", "ORD_101"}

\* order["user_id"] or f"guest_{order['session_id'][:8]}"
GuestOf(session_id) == IF session_id = "s1" THEN "guest_s1" ELSE "guest_s2"

\* a row of cart_items: the menu item and its quantity (customization NULL)
CartItemRow(item, quantity) == [item |-> item, quantity |-> quantity]

\* a row of carts with the rows of cart_items of its session
CartRow(user_id, total_items, items) ==
    [user_id |-> user_id, total_items |-> total_items, items |-> items]

\* SELECT * FROM cart_items WHERE session_id = ?
CartItemsOf(table, session_id) ==
    IF session_id \in DOMAIN table THEN table[session_id].items ELSE <<>>

\* get_cart_async as far as the tables go: a session without a row in carts
\* gets an empty one
WithCart(table, session_id) ==
    IF session_id \in DOMAIN table THEN table
    ELSE Put(table, session_id, CartRow("", 0, <<>>))

\* the rows after add_to_cart_async's UPDATE or INSERT: a row with the same
\* SKU and customization gets the quantity added, else a new row is inserted
RECURSIVE AddedItem(_, _, _)
AddedItem(items, item, quantity) ==
    IF items = <<>> THEN <<CartItemRow(item, quantity)>>
    ELSE IF Head(items).item.sku = item.sku
    THEN <<CartItemRow(item, Head(items).quantity + quantity)>> \o Tail(items)
    ELSE <<Head(items)>> \o AddedItem(Tail(items), item, quantity)

\* _recalculate_cart_totals_async: total_items
RECURSIVE TotalItems(_)
TotalItems(items) ==
    IF items = <<>> THEN 0 ELSE Head(items).quantity + TotalItems(Tail(items))

\* POST /api/cart/add: add_to_cart_async(request), request.customization None
AddToCart(session_id, user_id, item, quantity) ==
    LET cart == WithCart(carts, session_id)[session_id]
        items == AddedItem(cart.items, item, quantity)
    IN  /\ carts' = Put(carts, session_id,
                        CartRow(IF user_id # "" THEN user_id ELSE cart.user_id,
                                TotalItems(items), items))
        /\ UNCHANGED <<completed_orders, checkout>>
        /\ UNCHANGED <<abVars, sessVars, behVars>>

\* a checkout coroutine: pc is the statement it runs next; cart is what its
\* get_cart_async returned; status is what the request returned
CheckoutState(pc, session_id, user_id, cart, order_id, status) ==
    [pc |-> pc, session_id |-> session_id, user_id |-> user_id, cart |-> cart,
     order_id |-> order_id, status |-> status]

IdleCheckout == CheckoutState("idle", "", "", CartRow("", 0, <<>>), "", "")

\* the frame of a step of checkout_async that writes no table of the
\* behavior service
CheckoutFrame == UNCHANGED <<abVars, sessVars, behVars>>

\* checkout_async(request), get_cart_async: SELECT * FROM carts. A session
\* without a row gets one and is returned as an empty cart.
CheckoutSelectCart(r, session_id, user_id) ==
    /\ checkout[r].pc = "idle"
    /\ IF session_id \in DOMAIN carts
       THEN /\ checkout' = [checkout EXCEPT ![r] =
                               CheckoutState("select_items", session_id, user_id,
                                             CartRow(carts[session_id].user_id,
                                                     carts[session_id].total_items, <<>>),
                                             "", "")]
            /\ UNCHANGED carts
       ELSE /\ carts' = WithCart(carts, session_id)
            /\ checkout' = [checkout EXCEPT ![r] =
                               CheckoutState("done", session_id, user_id,
                                             CartRow("", 0, <<>>), "", "empty_cart")]
    /\ UNCHANGED completed_orders
    /\ CheckoutFrame

\* get_cart_async: SELECT * FROM cart_items; then `if not cart.items: return
\* {"status": "error", ...}`
CheckoutSelectItems(r) ==
    LET c == checkout[r]
        items == CartItemsOf(carts, c.session_id)
    IN  /\ c.pc = "select_items"
        /\ checkout' = [checkout EXCEPT ![r] =
               IF items = <<>>
               THEN [c EXCEPT !.pc = "done", !.status = "empty_cart"]
               ELSE [c EXCEPT !.pc = "insert_order", !.cart.items = items]]
        /\ UNCHANGED <<carts, completed_orders>>
        /\ CheckoutFrame

\* INSERT INTO completed_orders (order_id is the primary key), the INSERTs
\* into completed_order_items and the commit
CheckoutInsertOrder(r, order_id) ==
    LET c == checkout[r]
        user_id == IF c.user_id # "" THEN c.user_id ELSE c.cart.user_id
    IN  /\ c.pc = "insert_order"
        /\ IF \E i \in 1..Len(completed_orders) : completed_orders[i].order_id = order_id
           THEN /\ checkout' = [checkout EXCEPT ![r] =
                                   [c EXCEPT !.pc = "done", !.status = "IntegrityError"]]
                /\ UNCHANGED completed_orders
           ELSE /\ completed_orders' =
                       Append(completed_orders,
                              [order_id |-> order_id, user_id |-> user_id,
                               session_id |-> c.session_id,
                               total_items |-> c.cart.total_items,
                               items |-> c.cart.items])
                /\ checkout' = [checkout EXCEPT ![r] =
                                   [c EXCEPT !.pc = "delete_items", !.order_id = order_id,
                                             !.user_id = user_id]]
        /\ UNCHANGED carts
        /\ CheckoutFrame

\* clear_cart_async: DELETE FROM cart_items WHERE session_id = ?
CheckoutDeleteItems(r) ==
    LET c == checkout[r]
    IN  /\ c.pc = "delete_items"
        /\ carts' = [carts EXCEPT ![c.session_id].items = <<>>]
        /\ checkout' = [checkout EXCEPT ![r].pc = "update_totals"]
        /\ UNCHANGED completed_orders
        /\ CheckoutFrame

\* clear_cart_async: UPDATE carts SET total_price = 0.0, total_items = 0,
\* the commit and the get_cart_async whose result checkout_async drops
CheckoutUpdateTotals(r) ==
    LET c == checkout[r]
    IN  /\ c.pc = "update_totals"
        /\ carts' = [carts EXCEPT ![c.session_id].total_items = 0]
        /\ checkout' = [checkout EXCEPT ![r].pc = "sync_order"]
        /\ UNCHANGED completed_orders
        /\ CheckoutFrame

\* _sync_order_to_behavior_async(order): record_order_async for every item
\* of the order, then return {"status": "success", ...}
CheckoutSyncOrder(r) ==
    LET c == checkout[r]
        user_id == IF c.user_id # "" THEN c.user_id ELSE GuestOf(c.session_id)
    IN  /\ c.pc = "sync_order"
        /\ orders' = orders \o [i \in 1..Len(c.cart.items) |->
                                   OrderRow(user_id, c.cart.items[i].item, NoCustomization,
                                            0, clock)]
        /\ checkout' = [checkout EXCEPT ![r] = [c EXCEPT !.pc = "done", !.status = "success"]]
        /\ UNCHANGED <<carts, completed_orders>>
        /\ UNCHANGED <<behaviors, profile, presets, cust_boost, order_boost, ranked, result,
                       suggestion>>
        /\ UNCHANGED <<abVars, sessVars>>

CartInit ==
    /\ carts = EmptyDict
    /\ completed_orders = <<>>
    /\ checkout = [r \in CheckoutRequests |-> IdleCheckout]

BehInit ==
    /\ orders = <<>>
    /\ behaviors = <<>>
    /\ profile = NoProfile
    /\ presets = <<>>
    /\ cust_boost = NoCustBoost
    /\ order_boost = NoOrderBoost
    /\ ranked = NoRanked
    /\ result = NoRecommendation
    /\ suggestion = NoSuggestion

SessInit ==
    /\ sessions = EmptyDict
    /\ clock = 0
    /\ inflight = EmptyBag
    /\ served = <<>>
    /\ session_boost = NoBoost

\* The tables a process may find at start: empty, or the default
\* experiments stored by an earlier run (with or without "exp_x")
StoredAtStart ==
    {EmptyDict, [e \in DefaultExperimentIds |-> DefaultExperiment(e)]}
    \cup { Put([e \in DefaultExperimentIds |-> DefaultExperiment(e)], "exp_x", x) :
              x \in CustomExperiments }

ABInit ==
    /\ db_experiments \in StoredAtStart
    /\ experiments_cache = EmptyDict
    /\ initialized = FALSE
    /\ ab_result = NoResult

ABIdle ==
    /\ db_experiments = EmptyDict
    /\ experiments_cache = EmptyDict
    /\ initialized = FALSE
    /\ ab_result = NoResult

ABNext ==
    \/ \E e \in ExperimentIds, u \in UserIds : GetVariantAsync(e, u)
    \/ \E e \in ExperimentIds, u \in UserIds, in_loop \in BOOLEAN : GetVariant(e, u, in_loop)
    \/ \E x \in CustomExperiments : CreateExperimentAsync("exp_x", x)
    \/ \E x \in CustomExperiments, in_loop \in BOOLEAN : CreateExperiment("exp_x", x, in_loop)

InitAB == ABInit /\ SessInit /\ BehInit /\ CartInit

SpecAB == InitAB /\ [][ABNext]_vars

-----------------------------------------------------------------------------
(* The session service behind the HTTP handlers                            *)

Init == SessInit /\ ABIdle /\ BehInit /\ CartInit

\* the event loop picks any scheduled coroutine
HandleNext == \E r \in BagToSet(inflight) : Handle(r)

\* the requests clients send while others are still pending
ConcurrentTypes == {"like", "dislike", "view"}
ConcurrentItems == {Latte, Sampler}

SubmitNext ==
    \E sid \in SessionIds, type \in ConcurrentTypes, item \in ConcurrentItems :
        Submit(sid, type, item)

Next == SubmitNext \/ HandleNext

Spec == Init /\ [][Next]_vars

-----------------------------------------------------------------------------
(* Session boosts of the states record_interaction builds                  *)

\* Bound: interactions recorded before a boost is asked for
MaxBoostCalls == 3

NextBoost ==
    \/ \E type \in InteractionTypes, item \in Items :
          Len(served) < MaxBoostCalls /\ RecordInteractionAt("s1", type, item, clock)
    \/ \E sid \in SessionIds, item \in Items : GetSessionBoost(sid, item)

SpecBoost == Init /\ [][NextBoost]_vars

-----------------------------------------------------------------------------
(* One session that keeps receiving interactions, a second apart           *)

\* Bound: interactions recorded in the session
MaxRingCalls == 120

NextRing ==
    \E item \in {Latte} :
        Len(served) < MaxRingCalls /\ RecordInteractionAt("s1", "view", item, clock + 1)

SpecRing == Init /\ [][NextRing]_vars

-----------------------------------------------------------------------------
(* Sessions over time: creation, activity, ranking reads, cleanup          *)

\* Bounds: the clock advances TickSeconds at a time up to MaxTicks times;
\* interactions recorded
TickSeconds == 1800
MaxTicks == 5
MaxGCCalls == 2

NextGC ==
    \/ \E sid \in SessionIds : InitSession(sid, "u1")
    \/ \E sid \in SessionIds :
          Len(served) < MaxGCCalls /\ RecordInteractionAt(sid, "view", Latte, clock)
    \/ \E sid \in SessionIds : GetSessionBoost(sid, Latte)
    \/ CleanupExpiredSessions(DefaultMaxAge)
    \/ Tick(TickSeconds, MaxTicks * TickSeconds)

\* Nothing in the application calls cleanup_expired_sessions (no timer, no
\* sweep in get_or_create_session, no call from a handler): it runs only if
\* some outside caller invokes it, so the only step that is bound to happen
\* is the passing of time.
SpecGC == Init /\ [][NextGC]_vars /\ WF_vars(Tick(TickSeconds, MaxTicks * TickSeconds))

-----------------------------------------------------------------------------
(* Orders with client-supplied timestamps and the profiles built from them *)

\* Bounds: rows per table, the half-lives the clock starts at and may reach
MaxOrders == 2
MaxBehaviors == 1
StartHalfLives == 6
MaxHalfLives == 8

\* what a client may put in OrderRecordRequest.timestamp at time now: nothing
\* (0), or a time some half-lives before or after now
ClientTimestamps(now) ==
    {0} \cup {now + k * HalfLifeSeconds : k \in {0 - 5, 0 - 1, 1, 2}}

InitDecay ==
    /\ ABIdle
    /\ BehInit
    /\ CartInit
    /\ sessions = EmptyDict
    /\ clock = StartHalfLives * HalfLifeSeconds
    /\ inflight = EmptyBag
    /\ served = <<>>
    /\ session_boost = NoBoost

RecordOrderNext ==
    \E user_id \in {"u1", "u2"}, item \in {Latte, Sampler},
       timestamp \in ClientTimestamps(clock) :
        /\ Len(orders) < MaxOrders
        /\ RecordOrder(user_id, item, NoCustomization, timestamp)

RecordBehaviorNext ==
    \E user_id \in {"u1", "u2"}, action \in {"click", "order"} :
        /\ Len(behaviors) < MaxBehaviors
        /\ Len(orders) < MaxOrders
        /\ RecordBehavior(user_id, action, Latte, NoCustomization)

GetUserProfileNext == \E user_id \in {"u1", "u2"} : GetUserProfile(user_id)

HalfLifePasses == Tick(HalfLifeSeconds, MaxHalfLives * HalfLifeSeconds)

NextDecay ==
    RecordOrderNext \/ RecordBehaviorNext \/ GetUserProfileNext \/ HalfLifePasses

SpecDecay == InitDecay /\ [][NextDecay]_vars

-----------------------------------------------------------------------------
(* A history of orders of one SKU, all with one timestamp                  *)

\* Bound: orders recorded (more than get_user_orders_async returns)
MaxSameOrders == 51

\* the timestamp of the first order: that of the call, or one or two
\* half-lives before it; every later order repeats it
SameTimestamps ==
    IF orders = <<>>
    THEN {clock - k * HalfLifeSeconds : k \in 0..2}
    ELSE {orders[1].timestamp}

RecordSameOrderNext ==
    \E timestamp \in SameTimestamps :
        /\ Len(orders) < MaxSameOrders
        /\ RecordOrder("u1", Latte, NoCustomization, timestamp)

GetSameProfileNext == GetUserProfile("u1")

NextHistory == RecordSameOrderNext \/ GetSameProfileNext

SpecHistory == InitDecay /\ [][NextHistory]_vars

-----------------------------------------------------------------------------
(* Customization boosts of the histories and presets users can build       *)

\* Bounds: orders and presets recorded before a boost is asked for
MaxCustOrders == 2
MaxPresets == 1

\* order customizations: canonical names, the catalog's own strings, lower
\* case, values no table knows, keys left out
CustomizationChoices ==
    {Customization("ICED", "GRANDE", "OAT", "zh_bulingwaijiatang"),
     Customization("zh_re", "zh_chaodabei", "none", "NONE"),
     Customization("BLENDED", "TRENTA", "RICE", "EXTRA"),
     Customization("hot", "", "", "")}

PresetChoices ==
    {<<"ICED", "GRANDE", "NONE", "OAT">>,
     <<"BLENDED", "TRENTA", "EXTRA", "RICE">>,
     <<"", "", "", "NONE">>}

\* the option lists of the menu's items, as recommend_v2 passes them
BoostItems == {ToBoostItem(item) : item \in MenuItems}

RecordCustomOrderNext ==
    \E customization \in CustomizationChoices :
        /\ Len(orders) < MaxCustOrders
        /\ RecordOrder("u1", Latte, customization, 0)

CreatePresetNext ==
    \E p \in PresetChoices :
        /\ Len(presets) < MaxPresets
        /\ CreatePreset("u1", p[1], p[2], p[3], p[4])

GetCustomizationBoostNext ==
    \E user_id \in {"u1", "u2"}, item \in BoostItems : GetCustomizationBoost(user_id, item)

NextCust == RecordCustomOrderNext \/ CreatePresetNext \/ GetCustomizationBoostNext

SpecCust == Init /\ [][NextCust]_vars

-----------------------------------------------------------------------------
(* Ranking requests against sessions, orders and experiment assignments    *)

\* Bounds: interactions and orders recorded before candidates are scored
MaxRankInteractions == 1
MaxRankOrders == 1

\* the item_data a client sends for a menu item
ItemData(item) == Item(item.sku, item.tags, CategoryValue[item.category], item.base_price)

RankRequests ==
    {RankRequest(Context("", "", ""), <<>>, TRUE, TRUE, TRUE),
     RankRequest(Context("", "", ""), <<>>, FALSE, TRUE, TRUE),
     RankRequest(Context("", "", ""), <<>>, FALSE, FALSE, FALSE),
     RankRequest(Context("morning", "summer", "weekend"), <<>>, TRUE, TRUE, TRUE),
     RankRequest(Context("morning", "summer", "weekend"), <<>>, FALSE, TRUE, TRUE),
     RankRequest(Context("evening", "winter", "weekday"), <<"zh_wanghong">>, FALSE, TRUE, FALSE),
     RankRequest(Context("night", "", ""), <<"zh_wanghong">>, TRUE, FALSE, TRUE)}

RankInteractionNext ==
    \E type \in {"like", "dislike"} :
        /\ Len(served) < MaxRankInteractions
        /\ RecordInteractionAt("s1", type, ItemData(COF012), clock)

RankOrderNext ==
    \E customization \in {NoCustomization,
                          Customization("ICED", "GRANDE", "OAT", "zh_bulingwaijiatang")},
       timestamp \in {0, clock + HalfLifeSeconds} :
        /\ Len(orders) < MaxRankOrders
        /\ RecordOrder("u1", ItemData(COF003), customization, timestamp)

AssignNext == \E user_id \in {"u1", "u3"} : GetVariantAsync("rec_algorithm", user_id)

ScoreCandidateNext ==
    \E user_id \in {"u1", "u3"}, item \in MenuItems, q \in RankRequests :
        ScoreCandidate(TRUE, user_id, "s1", item, q.avoid_keywords, q.context,
                       q.enable_ab_test, q.enable_behavior, q.enable_session)

GetOrderBoostNext == \E item \in {COF003, COF012} : GetOrderBoost("u1", item)

NextRank ==
    \/ RankInteractionNext
    \/ RankOrderNext
    \/ AssignNext
    \/ ScoreCandidateNext
    \/ GetOrderBoostNext

SpecRank == Init /\ [][NextRank]_vars

-----------------------------------------------------------------------------
(* Whole ranking requests between recording calls                          *)

\* Bound: interactions, orders and presets recorded around the requests
MaxV2Records == 2

V2Recorded == Len(served) + Len(orders) + Len(presets)

\* what vector recall returns, already sorted by similarity (descending)
Recall1 ==
    <<Candidate(COF012, Frac(3, 5)), Candidate(COF003, Frac(1, 2)),
      Candidate(FOO003, Frac(1, 2)), Candidate(TEA003, Frac(1, 2))>>

Recall2 ==
    <<Candidate(TEA003, Frac(3, 5)), Candidate(FOO003, Frac(1, 2)),
      Candidate(COF003, Frac(2, 5))>>

\* the body of a POST /api/embedding/recommend/v2 and the recall it meets
V2Call(user_id, candidates, top_k, q) ==
    [user_id |-> user_id, candidates |-> candidates, top_k |-> top_k, request |-> q]

V2Calls ==
    {V2Call("u6", Recall1, 2, RankRequest(Context("", "", ""), <<>>, FALSE, TRUE, TRUE)),
     V2Call("u6", Recall1, 3, RankRequest(Context("", "", ""), <<>>, FALSE, FALSE, FALSE)),
     V2Call("u1", Recall2, 1,
            RankRequest(Context("morning", "", ""), <<"zh_xiandian">>, TRUE, TRUE, TRUE)),
     V2Call("u6", Recall2, 2, RankRequest(Context("", "", ""), <<>>, TRUE, FALSE, TRUE)),
     V2Call("u3", Recall1, 1, RankRequest(Context("", "", ""), <<>>, TRUE, TRUE, TRUE))}

V2InitSessionNext == sessions = EmptyDict /\ InitSession("s1", "u6")

V2InteractionNext ==
    \E type \in {"like", "dislike"} :
        /\ V2Recorded < MaxV2Records
        /\ RecordInteractionAt("s1", type, ItemData(COF012), clock)

V2OrderNext ==
    /\ V2Recorded < MaxV2Records
    /\ RecordOrder("u6", ItemData(COF003),
                   Customization("ICED", "GRANDE", "OAT", "zh_bulingwaijiatang"), 0)

V2PresetNext ==
    /\ V2Recorded < MaxV2Records
    /\ CreatePreset("u6", "ICED", "GRANDE", "NONE", "OAT")

V2AssignNext == GetVariantAsync("rec_algorithm", "u6")

RecommendV2Next ==
    \E env \in {<<"down", "none">>, <<"up", "none">>, <<"down", "customization">>},
       c \in V2Calls :
        RecommendV2(TRUE, env[1], env[2], c.user_id, "s1", c.candidates, c.top_k, c.request)

NextV2 ==
    \/ V2InitSessionNext
    \/ V2InteractionNext
    \/ V2OrderNext
    \/ V2PresetNext
    \/ V2AssignNext
    \/ RecommendV2Next

SpecV2 == Init /\ [][NextV2]_vars

------------------------------------------------------------------------------
(* Profiles of histories with more distinct values than a profile keeps     *)

\* Bound: orders recorded before a profile is built
MaxPrefOrders == 4

RecordPrefOrderNext ==
    \E customization \in CustomizationChoices :
        /\ Len(orders) < MaxPrefOrders
        /\ RecordOrder("u1", Latte, customization, 0)

GetPrefProfileNext == GetUserProfile("u1")

NextPref == RecordPrefOrderNext \/ GetPrefProfileNext

SpecPref == Init /\ [][NextPref]_vars

------------------------------------------------------------------------------
(* A user who always orders iced drinks with oat milk                       *)

\* Bound: orders recorded
MaxIcedOatOrders == 8

\* a temperature or milk type as an order may carry it: the enum member's
\* name (what POST /api/behavior/simulate and the presets write) or its
\* value (what a cart checkout writes)
IsIced(value) == value \in {"ICED", TemperatureValue["ICED"]}
IsOat(value) == value \in {"OAT", MilkTypeValue["OAT"]}

IcedOatChoices ==
    IF orders = <<>>
    THEN {Customization("ICED", "", "OAT", ""),
          Customization(TemperatureValue["ICED"], "", MilkTypeValue["OAT"], "")}
    ELSE {orders[1].customization}

\* option lists of an item that supports the temperatures ICED and HOT and
\* the milk types OAT and WHOLE, as recommend_v2 passes them
IcedHotOatWholeOptions ==
    {BoostItem([i \in 1..2 |-> Plain2(TemperatureValue[temperatures[i]])],
               <<Plain2(CupSizeValue["TALL"]), Plain2(CupSizeValue["GRANDE"])>>, TRUE,
               [i \in 1..2 |-> Member(MilkTypeValue[milk_types[i]],
                                      "MilkType." \o milk_types[i])],
               <<>>) :
         temperatures \in {<<"ICED", "HOT">>, <<"HOT", "ICED">>},
         milk_types \in {<<"OAT", "WHOLE">>, <<"WHOLE", "OAT">>}}

\* the same items with the defaults their constraints may document
IcedHotOatWholeItems ==
    {SuggestItem(options, default_temperature, "", default_milk_type) :
         options \in IcedHotOatWholeOptions,
         default_temperature \in {"", TemperatureValue["HOT"]},
         default_milk_type \in {"", MilkTypeValue["WHOLE"]}}

RecordIcedOatOrderNext ==
    \E customization \in IcedOatChoices :
        /\ Len(orders) < MaxIcedOatOrders
        /\ RecordOrder("u1", Latte, customization, 0)

IcedOatBoostNext == \E options \in IcedHotOatWholeOptions : GetCustomizationBoost("u1", options)

IcedOatSuggestNext == \E item \in IcedHotOatWholeItems : GetSuggestedCustomization("u1", item)

NextIcedOat == RecordIcedOatOrderNext \/ IcedOatBoostNext \/ IcedOatSuggestNext

SpecIcedOat == Init /\ [][NextIcedOat]_vars

------------------------------------------------------------------------------
(* Suggestions and boosts for the histories and presets users can build     *)

\* default_temperature, default_sugar_level and default_milk_type of the
\* menu's customization_constraints, as enum member names ("" is None)
MenuDefaults ==
    [COF003 |-> <<"HOT", "NONE", "WHOLE">>, COF012 |-> <<"ICED", "NONE", "COCONUT">>,
     TEA003 |-> <<"ICED", "FULL", "">>, FOO003 |-> <<"", "", "">>]

\* the arguments recommend_v2 passes to get_suggested_customization_for_item
ToSuggestItem(item) ==
    LET d == MenuDefaults[item.sku]
    IN  SuggestItem(ToBoostItem(item),
                    IF d[1] = "" THEN "" ELSE TemperatureValue[d[1]],
                    IF d[2] = "" THEN "" ELSE SugarLevelValue[d[2]],
                    IF d[3] = "" THEN "" ELSE MilkTypeValue[d[3]])

SuggestItems == {ToSuggestItem(item) : item \in MenuItems}

GetSuggestedCustomizationNext ==
    \E user_id \in {"u1", "u2"}, item \in SuggestItems : GetSuggestedCustomization(user_id, item)

NextSuggest ==
    \/ RecordCustomOrderNext
    \/ CreatePresetNext
    \/ GetCustomizationBoostNext
    \/ GetSuggestedCustomizationNext

SpecSuggest == Init /\ [][NextSuggest]_vars

-----------------------------------------------------------------------------
(* Profiles of orders whose customization leaves a dimension null          *)

\* Bound: orders recorded before a profile is built
MaxNullOrders == 3

\* customization dicts POST /api/orders accepts (customization: Optional[dict]):
\* complete ones, and ones that hold null for some of the keys
NullChoices ==
    {Customization("ICED", "GRANDE", "OAT", "NONE"),
     Customization("HOT", "TALL", "WHOLE", "HALF"),
     Customization(JsonNull, "GRANDE", "OAT", "NONE"),
     Customization("ICED", JsonNull, JsonNull, ""),
     Customization(JsonNull, JsonNull, JsonNull, JsonNull)}

RecordNullOrderNext ==
    \E customization \in NullChoices :
        /\ Len(orders) < MaxNullOrders
        /\ RecordOrder("u1", Latte, customization, 0)

GetNullProfileNext == GetUserProfile("u1")

NextNull == RecordNullOrderNext \/ GetNullProfileNext

SpecNull == Init /\ [][NextNull]_vars

-----------------------------------------------------------------------------
(* Carts filled, then checked out by requests that may overlap             *)

\* Bound: items put into the carts before the checkout requests arrive
MaxCartItems == 2

\* the items in all the carts
CartLoad ==
    LET Load[ss \in SUBSET CartSessions] ==
            IF ss = {} THEN 0
            ELSE LET sid == CHOOSE x \in ss : TRUE
                 IN  TotalItems(CartItemsOf(carts, sid)) + Load[ss \ {sid}]
    IN  Load[CartSessions]

\* no checkout request has arrived yet
NoCheckoutYet == \A r \in CheckoutRequests : checkout[r].pc = "idle"

AddToCartNext ==
    \E session_id \in CartSessions, user_id \in {"", "u1"}, item \in {Latte, Sampler} :
        /\ NoCheckoutYet
        /\ CartLoad < MaxCartItems
        /\ AddToCart(session_id, user_id, item, 1)

CheckoutNext ==
    \E r \in CheckoutRequests :
        \/ \E session_id \in CartSessions : CheckoutSelectCart(r, session_id, "")
        \/ CheckoutSelectItems(r)
        \/ \E order_id \in OrderIds : CheckoutInsertOrder(r, order_id)
        \/ CheckoutDeleteItems(r)
        \/ CheckoutUpdateTotals(r)
        \/ CheckoutSyncOrder(r)

NextCart == AddToCartNext \/ CheckoutNext

SpecCart == Init /\ [][NextCart]_vars

-----------------------------------------------------------------------------
(* Properties                                                              *)

\* C1: for every experiment id and user id, any two calls to experiment
\* assignment made while the experiment is registered return the same
\* variant, whichever entry point serves them (stated on consecutive calls
\* for the same pair; a new definition of the experiment resets ab_result).
C1_SameVariantEveryCall ==
    [][ ( /\ ab_result.entry # "none" /\ ab_result'.entry # "none"
          /\ ab_result.registered /\ ab_result'.registered
          /\ ab_result'.experiment_id = ab_result.experiment_id
          /\ ab_result'.user_id = ab_result.user_id )
        => ab_result'.variant = ab_result.variant ]_vars

RECURSIVE TotalWeight(_)
TotalWeight(variants) ==
    IF variants = <<>> THEN 0 ELSE Head(variants).weight + TotalWeight(Tail(variants))

\* C2: when an active experiment's weights sum to less than 100 and the
\* user's bucket is not below any cumulative weight, assignment returns the
\* last variant in declaration order and does not crash.
C2_FallbackIsLastVariant ==
    LET exp == ab_result.exp
    IN  ( /\ ab_result.entry # "none"
          /\ exp.status = "active"
          /\ TotalWeight(exp.variants) < 100
          /\ Md5Bucket(ab_result.experiment_id, ab_result.user_id) >= TotalWeight(exp.variants) )
        => /\ ab_result.variant # "IndexError"
           /\ Len(exp.variants) > 0 => ab_result.variant = exp.variants[Len(exp.variants)].id

\* the requests served for session sid, in serving order
ServedFor(sid) == SelectSeq(served, LAMBDA e : e.req.session_id = sid)

SeqToSet(list) == {list[i] : i \in 1..Len(list)}

TagsOf(e) == SeqToSet(e.req.item.tags)

IsPriced(e) == e.req.type \in {"view", "click"} /\ e.req.item.price # 0

RECURSIVE SumPrices(_)
SumPrices(h) ==
    IF h = <<>> THEN 0
    ELSE (IF IsPriced(Head(h)) THEN Head(h).req.item.price ELSE 0) + SumPrices(Tail(h))

\* the session sid holds exactly what its served requests, taken one after
\* the other, amount to
SerialOutcome(sid) ==
    LET h == ServedFor(sid)
        s == sessions[sid]
        n == Len(h)
        k == Min2(n, MaxInteractions)
        priced == {i \in 1..n : IsPriced(h[i])}
        pr == s.price_range
    IN  /\ Len(s.interactions) = k
        /\ \A i \in 1..k :
              s.interactions[i] = [type |-> h[n - k + i].req.type,
                                   item |-> h[n - k + i].req.item,
                                   timestamp |-> h[n - k + i].at]
        /\ SeqToSet(s.liked_tags) =
              {t \in UNION {TagsOf(h[i]) : i \in 1..n} :
                  \E i \in 1..n :
                      /\ h[i].req.type = "like" /\ t \in TagsOf(h[i])
                      /\ \A j \in (i+1)..n : ~(h[j].req.type = "dislike" /\ t \in TagsOf(h[j]))}
        /\ SeqToSet(s.disliked_tags) =
              UNION {TagsOf(h[i]) : i \in {j \in 1..n : h[j].req.type = "dislike"}}
        /\ SeqToSet(s.viewed_categories) =
              {h[i].req.item.category : i \in {j \in 1..n :
                  h[j].req.type \in {"view", "click"} /\ h[j].req.item.category # ""}}
        /\ pr.present = (priced # {})
        /\ pr.count = Cardinality(priced)
        /\ pr.present =>
              /\ \E i \in priced : pr.min = h[i].req.item.price
              /\ \A i \in priced : pr.min <= h[i].req.item.price
              /\ \E i \in priced : pr.max = h[i].req.item.price
              /\ \A i \in priced : pr.max >= h[i].req.item.price
              /\ pr.avg_num * pr.count = SumPrices(h) * pr.avg_den

\* C3: when record_interaction calls for the same session are in flight
\* together, the session ends up in the state some serial order of them
\* produces (the order the event loop ran them): no update to the tag sets,
\* the interaction ring or the price range is lost.
C3_ConcurrentCallsSerialize ==
    \A sid \in DOMAIN sessions : SerialOutcome(sid)

C3_Witness ==
    \E sid \in DOMAIN sessions :
        /\ sessions[sid].price_range.count >= 2
        /\ \E i \in 1..Len(served) :
              served[i].req.session_id = sid /\ served[i].overlap >= 1 /\ IsPriced(served[i])

\* C4: no tag is in both the liked set and the disliked set of a session.
C4_NoTagLikedAndDisliked ==
    \A sid \in DOMAIN sessions :
        SeqToSet(sessions[sid].liked_tags) \cap SeqToSet(sessions[sid].disliked_tags) = {}

\* C5: a session's interaction list holds at most 50 entries, and they are
\* the most recently recorded ones in arrival order.
C5_RingKeepsLatest50 ==
    \A sid \in DOMAIN sessions :
        LET h == ServedFor(sid)
            ring == sessions[sid].interactions
            n == Len(h)
        IN  /\ Len(ring) <= 50
            /\ Len(ring) = Min2(n, 50)
            /\ \A i \in 1..Len(ring) :
                  /\ ring[i].timestamp = h[n - Len(ring) + i].at
                  /\ ring[i].type = h[n - Len(ring) + i].req.type
                  /\ ring[i].item = h[n - Len(ring) + i].req.item

C5_Witness ==
    /\ "s1" \in DOMAIN sessions
    /\ Len(served) > 50
    /\ Len(sessions["s1"].interactions) = 50
    /\ sessions["s1"].interactions[1].timestamp > served[1].at

\* C6: the boost get_session_boost returns lies within [0, 2.5].
C6_SessionBoostInRange ==
    session_boost.session_id # "" =>
        session_boost.boost >= 0 /\ 10 * session_boost.boost <= 25 * BoostOne

C6_Witness ==
    /\ session_boost.session_id \in DOMAIN sessions
    /\ 10 * RawSessionBoost(sessions[session_boost.session_id], session_boost.item.tags,
                            session_boost.item.category, session_boost.item.price)
          > 25 * BoostOne
    /\ 10 * session_boost.boost = 25 * BoostOne

\* C10: every session inactive for longer than the inactivity window is
\* eventually evicted from the session table (or becomes active again),
\* with no ranking request needed.
C10_InactiveSessionsEvicted ==
    \A sid \in SessionIds :
        (sid \in DOMAIN sessions /\ clock - sessions[sid].last_active > DefaultMaxAge)
            ~> (sid \notin DOMAIN sessions \/ clock - sessions[sid].last_active <= DefaultMaxAge)

\* C9: every weight the time-decay function returns for a recorded order,
\* whether its timestamp is the server's or the client's (before or after
\* the current time), lies within [0.1, 1.0]
C9_DecayInRange ==
    \A i \in 1..Len(profile.decays) :
        DecayFloor <= profile.decays[i] /\ profile.decays[i] <= DecayOne

\* C7: whatever the user's order history and saved presets and whatever the
\* item's option lists, the total_boost the customization matcher returns
\* lies within [0.8, 1.5]
C7_CustomizationBoostInRange ==
    /\ 800 <= cust_boost.total_boost
    /\ cust_boost.total_boost <= 1500

\* a boost whose factors multiply to more than 1.5, returned as 1.5
C7_Witness ==
    /\ ~cust_boost.early
    /\ cust_boost.raw > CustCap
    /\ cust_boost.total_boost = 1500

\* The ranges the factors are held to: the clamps of the session boost, the
\* customization boost and the order boost, and for the rule multiplier and
\* the cold-start boost the range of the constants their conditions apply
RuleFloor == Frac(50, 100)
RuleCap == Frac(120, 100)
ColdStartCap == Frac(120, 100)
BehaviorFloor == 900
BehaviorCap == 3000

RuleInRange(r) == FracLeq(RuleFloor, r.rule_multiplier) /\ FracLeq(r.rule_multiplier, RuleCap)

BehaviorInRange(r) ==
    BehaviorFloor <= r.behavior_multiplier /\ r.behavior_multiplier <= BehaviorCap

SessionInRange(r) == 0 <= r.session_multiplier /\ r.session_multiplier <= BoostCap

CustomizationInRange(r) ==
    800 <= r.customization_multiplier /\ r.customization_multiplier <= 1500

ColdStartInRange(r) ==
    FracLeq(FracOne, r.cold_start_boost) /\ FracLeq(r.cold_start_boost, ColdStartCap)

\* C8: each of the five multipliers of a scored candidate (rule, behavior,
\* session, customization, cold-start) lies within its own range, however
\* many of its conditions hold for the candidate, and so does the order
\* boost the behavior multiplier is taken from
C8_EveryMultiplierInRange ==
    /\ RuleInRange(ranked)
    /\ BehaviorInRange(ranked)
    /\ SessionInRange(ranked)
    /\ CustomizationInRange(ranked)
    /\ ColdStartInRange(ranked)
    /\ BehaviorFloor <= order_boost.total_boost
    /\ order_boost.total_boost <= BehaviorCap

\* C11: a ranking call leaves the session table and the order and behavior
\* logs as they were: it creates no session, refreshes no last_active and
\* appends no order or behavior row, also for a session id or user id that
\* is not known yet (a ranking call is a step that returns a new result).
C11_RankingLeavesLogsUnchanged ==
    [][result' # result =>
          /\ sessions' = sessions
          /\ orders' = orders
          /\ behaviors' = behaviors]_vars

\* a ranking that asked for the session boost of a session that does not
\* exist, for a user without orders, and the session still does not exist
C11_Witness ==
    /\ result.status = "ok"
    /\ result.request.enable_session /\ result.request.enable_behavior
    /\ ~result.request.enable_ab_test
    /\ result.session_id \notin DOMAIN sessions
    /\ UserOrders(orders, result.user_id) = <<>>

\* C12: when the computation of an optional sub-score fails during a
\* ranking (here the customization boost raises or times out), the request
\* still returns a ranking, with 1.0 as that factor of every candidate.
C12_FailedSubScoreIsNeutral ==
    result.fault = "customization" =>
        /\ result.status = "ok"
        /\ \A i \in 1..Len(result.recommendations) :
               result.recommendations[i].customization_multiplier = 1000

\* the last result is what the same request returns in the present state
\* (nothing it depends on was recorded or loaded since)
Fresh ==
    /\ result.status = "ok"
    /\ result = RecommendV2Result(experiments_cache, result.in_loop, result.tie,
                                  result.fault, result.user_id, result.session_id,
                                  result.candidates, result.top_k, result.request)

\* C13: the cold-start boost goes only to users with no recorded events:
\* for a user with at least one recorded order the cold-start factor of
\* every candidate of a ranking is 1.0.
C13_ColdStartOnlyForNewUsers ==
    (Fresh /\ UserOrders(orders, result.user_id) # <<>>) =>
        \A i \in 1..Len(result.recommendations) :
            /\ result.recommendations[i].cold_start_boost = FracOne
            /\ ~result.recommendations[i].is_cold_start

\* C14: a factor the rec_algorithm variant excludes is exactly 1.0 for every
\* candidate: under embedding the behavior, session and customization
\* factors, under embedding_plus the session and customization factors.
C14_ExcludedFactorIsNeutral ==
    \A i \in 1..Len(result.reranked) :
        LET r == result.reranked[i]
        IN  /\ r.algorithm_variant \in {"embedding", "embedding_plus"} =>
                /\ r.session_multiplier = BoostOne
                /\ r.customization_multiplier = 1000
            /\ r.algorithm_variant = "embedding" => r.behavior_multiplier = 1000

\* a ranking under variant embedding, with the session boost asked for, of
\* a candidate whose tags the session has liked
C14_Witness ==
    /\ Fresh
    /\ result.request.enable_session /\ result.request.enable_behavior
    /\ \E i \in 1..Len(result.reranked) :
           LET r == result.reranked[i]
           IN  /\ r.algorithm_variant = "embedding"
               /\ SessionBoostOf(sessions, result.session_id, r.item.tags,
                                 CategoryValue[r.item.category], r.item.base_price) > BoostOne
               /\ r.session_multiplier = BoostOne

\* what the request of the last result returns with its flags replaced
WithFlags(enable_behavior, enable_session) ==
    RecommendV2Result(experiments_cache, result.in_loop, result.tie, result.fault,
                      result.user_id, result.session_id, result.candidates, result.top_k,
                      [result.request EXCEPT !.enable_behavior = enable_behavior,
                                             !.enable_session = enable_session])

\* C15: the factors are switched independently: disabling the behavior
\* factor of a request leaves the session, customization and cold-start
\* factors of every candidate as they were, and disabling the session factor
\* leaves the behavior, customization and cold-start factors as they were.
C15_FlagsIndependent ==
    Fresh =>
        LET q == result.request
            no_behavior == WithFlags(FALSE, q.enable_session)
            no_session == WithFlags(q.enable_behavior, FALSE)
        IN  \A i \in 1..Len(result.reranked) :
                LET r == result.reranked[i]
                    b == no_behavior.reranked[i]
                    s == no_session.reranked[i]
                IN  /\ b.session_multiplier = r.session_multiplier
                    /\ b.customization_multiplier = r.customization_multiplier
                    /\ b.cold_start_boost = r.cold_start_boost
                    /\ s.behavior_multiplier = r.behavior_multiplier
                    /\ s.customization_multiplier = r.customization_multiplier
                    /\ s.cold_start_boost = r.cold_start_boost

\* C16: the final_score of every ranked candidate is the product of its
\* base similarity and its rule, behavior, session, customization and
\* cold-start factors, as recorded for that candidate.
C16_FinalScoreIsProduct ==
    \A i \in 1..Len(result.recommendations) :
        LET r == result.recommendations[i]
            product == FracMul(r.base_score,
                       FracMul(r.rule_multiplier,
                       FracMul(Frac(r.behavior_multiplier, 1000),
                       FracMul(Frac(r.session_multiplier, BoostOne),
                       FracMul(Frac(r.customization_multiplier, 1000),
                               r.cold_start_boost)))))
        IN  /\ FracLeq(r.final_score, product)
            /\ FracLeq(product, r.final_score)

\* a ranked candidate whose rule, session, customization and cold-start
\* factors all differ from 1.0
C16_Witness ==
    \E i \in 1..Len(result.recommendations) :
        LET r == result.recommendations[i]
        IN  /\ r.rule_multiplier # FracOne
            /\ r.session_multiplier # BoostOne
            /\ r.customization_multiplier # 1000
            /\ r.cold_start_boost # FracOne

\* the place of a scored candidate in the similarity-ranked input
RecallIndex(sku) == CHOOSE i \in 1..Len(result.reranked) : result.reranked[i].sku = sku

\* x stands before y in the descending order that keeps ties in input order
RankedBefore(x, y) ==
    \/ ~FracLeq(x.final_score, y.final_score)
    \/ /\ FracLeq(y.final_score, x.final_score)
       /\ RecallIndex(x.sku) < RecallIndex(y.sku)

\* C17: the returned list is in non-increasing order of final score, holds
\* the first K of the scored candidates in that order, and candidates of
\* equal final score keep the order of the similarity-ranked input.
C17_SortedTopKStable ==
    result.status = "ok" =>
        LET recs == result.recommendations
            scored == result.reranked
        IN  /\ Len(recs) = Min2(result.top_k, Len(scored))
            /\ \A j \in 1..Len(recs) : \E i \in 1..Len(scored) : scored[i] = recs[j]
            /\ \A j, k \in 1..Len(recs) : j < k => RankedBefore(recs[j], recs[k])
            /\ \A i \in 1..Len(scored) :
                   (\A j \in 1..Len(recs) : recs[j] # scored[i]) =>
                       \A j \in 1..Len(recs) : RankedBefore(recs[j], scored[i])

\* a result that left scored candidates out, moved a candidate ahead of one
\* with a higher similarity, and returned a candidate whose final score
\* another scored candidate equals
C17_Witness ==
    LET recs == result.recommendations
    IN  /\ result.status = "ok"
        /\ Len(recs) < Len(result.reranked)
        /\ \E j, k \in 1..Len(recs) :
               /\ j < k
               /\ RecallIndex(recs[j].sku) > RecallIndex(recs[k].sku)
        /\ \E j \in 1..Len(recs), i \in 1..Len(result.reranked) :
               /\ result.reranked[i].sku # recs[j].sku
               /\ FracLeq(result.reranked[i].final_score, recs[j].final_score)
               /\ FracLeq(recs[j].final_score, result.reranked[i].final_score)

\* what the ranking call that returned result returns in the present state
RankedAgain ==
    RecommendV2Result(experiments_cache, result.in_loop, result.tie, result.fault,
                      result.user_id, result.session_id, result.candidates,
                      result.top_k, result.request)

\* C18: two ranking calls with identical inputs and no interaction-recording
\* call between them return the same ordering and the same scores: while
\* the session table and the order, behavior and preset rows are the ones
\* the last ranking call read, repeating that call (no sub-score failing
\* either time) returns the same items in the same order with the same
\* final scores.
C18_RankIsIdempotent ==
    (result.status = "ok" /\ result.fault = "none"
         /\ result.read = <<sessions, orders, behaviors, presets>>)
        => /\ Len(RankedAgain.recommendations) = Len(result.recommendations)
           /\ \A i \in 1..Len(result.recommendations) :
                  /\ RankedAgain.recommendations[i].sku = result.recommendations[i].sku
                  /\ FracLeq(RankedAgain.recommendations[i].final_score,
                             result.recommendations[i].final_score)
                  /\ FracLeq(result.recommendations[i].final_score,
                             RankedAgain.recommendations[i].final_score)

\* the user of the last ranking has no recorded order and no recorded behavior
NoRecordedEvents == RowsOf(orders, result.user_id) = <<>> /\ RowsOf(behaviors, result.user_id) = <<>>

\* the session of the last ranking does not exist or has nothing recorded
NoSessionState ==
    result.session_id \in DOMAIN sessions =>
        LET s == sessions[result.session_id]
        IN  /\ s.interactions = <<>>
            /\ s.liked_tags = <<>> /\ s.disliked_tags = <<>>
            /\ s.viewed_categories = <<>>
            /\ ~s.price_range.present

\* the behavior, session and customization factors of every scored candidate
\* of the last ranking are exactly 1.0
AllThreeNeutral ==
    \A i \in 1..Len(result.reranked) :
        /\ result.reranked[i].behavior_multiplier = 1000
        /\ result.reranked[i].session_multiplier = BoostOne
        /\ result.reranked[i].customization_multiplier = 1000

\* C19 as stated: for a user with no recorded events and a session with no
\* recorded state, the behavior, session and customization factors are all
\* exactly 1.0 for every candidate.
C19_EmptyProfileIsNeutral_Stated == (Fresh /\ NoRecordedEvents /\ NoSessionState) => AllThreeNeutral

\* C19: for a user with no recorded events and no saved customization
\* preset, and a session with no recorded state, the behavior, session and
\* customization factors are all exactly 1.0 for every candidate.
C19_EmptyProfileIsNeutral ==
    (Fresh /\ NoRecordedEvents /\ NoSessionState
         /\ RowsOf(presets, result.user_id) = <<>>) => AllThreeNeutral

\* a hybrid ranking, with the behavior and session boosts asked for, of a
\* user with no events and no preset in an initialised session that has
\* nothing recorded
C19_Witness ==
    /\ Fresh /\ NoRecordedEvents /\ NoSessionState
    /\ RowsOf(presets, result.user_id) = <<>>
    /\ result.session_id \in DOMAIN sessions
    /\ result.request.enable_behavior /\ result.request.enable_session
    /\ result.reranked # <<>>
    /\ \A i \in 1..Len(result.reranked) : result.reranked[i].algorithm_variant = "hybrid"

\* the history of u1 is N orders of one SKU with one timestamp, N >= 1
SameSkuSameTimestamp ==
    /\ orders # <<>>
    /\ \A i \in 1..Len(orders) :
           /\ orders[i].user_id = "u1"
           /\ orders[i].item_sku = orders[1].item_sku
           /\ orders[i].timestamp = orders[1].timestamp

\* C20: for every N >= 1, a user whose history is N orders of the same SKU
\* with the same timestamp has a profile weight for that SKU equal to
\* N times decay(timestamp).
C20_WeightIsNTimesDecay ==
    (SameSkuSameTimestamp /\ profile = UserProfile(orders, behaviors, "u1", clock)) =>
        /\ DOMAIN profile.sku_scores = {orders[1].item_sku}
        /\ profile.sku_scores[orders[1].item_sku]
               = Len(orders) * TimeDecay(clock, orders[1].timestamp)

\* the sum of the shares a distribution keeps, in hundredths
RECURSIVE SumOfRatios(_)
SumOfRatios(distribution) ==
    IF distribution = <<>> THEN 0
    ELSE Head(distribution).ratio + SumOfRatios(Tail(distribution))

\* C21: in every built profile, each customization dimension's distribution
\* keeps at most the 3 top values of that dimension, and the kept
\* proportions of each dimension sum to 1.0 (to within the hundredth that
\* rounding three shares to two decimals can lose or add).
C21_TopThreeSumToOne ==
    \A key \in DOMAIN profile.customization_preference :
        LET distribution == profile.customization_preference[key]
        IN  /\ Len(distribution) <= TopN
            /\ SumOfRatios(distribution) >= 99
            /\ SumOfRatios(distribution) <= 101

\* u1 has 8 orders, all with temperature ICED and milk type OAT
EightIcedOatOrders ==
    /\ Len(orders) = 8
    /\ \A i \in 1..Len(orders) :
           /\ orders[i].user_id = "u1"
           /\ IsIced(orders[i].customization.temperature)
           /\ IsOat(orders[i].customization.milk_type)

\* the stored boost is what the matcher returns for the present tables
FreshBoost ==
    cust_boost.factors
        = CustomizationBoost(UserProfile(orders, behaviors, cust_boost.user_id, clock),
                             UserPresets(presets, cust_boost.user_id), cust_boost.item).factors

\* the stored suggestion is what suggest returns for the present tables
FreshSuggestion ==
    suggestion.suggested
        = SuggestedCustomization(UserProfile(orders, behaviors, suggestion.user_id, clock),
                                 UserPresets(presets, suggestion.user_id), suggestion.item)

\* C22: for a user with 8 historical orders that all have temperature ICED
\* and milk type OAT, scored against an item supporting temperatures
\* {ICED, HOT} and milks {OAT, WHOLE}, the temperature_match factor is 1.15,
\* the milk_match factor is 1.2, and the suggested configuration has
\* temperature ICED and milk type OAT.
C22_IcedOatScenario ==
    EightIcedOatOrders =>
        /\ (FreshBoost /\ cust_boost.user_id = "u1"
                /\ cust_boost.item \in IcedHotOatWholeOptions) =>
               /\ cust_boost.factors.temperature_match = 115
               /\ cust_boost.factors.milk_match = 120
        /\ (FreshSuggestion /\ suggestion.user_id = "u1"
                /\ suggestion.item \in IcedHotOatWholeItems) =>
               /\ IsIced(suggestion.suggested.temperature)
               /\ IsOat(suggestion.suggested.milk_type)

\* the item supports a preferred value: it is one of the item's options,
\* letter case aside
Supports(available, value) ==
    \E i \in 1..Len(available) : Upper(available[i].value) = Upper(value)

\* what the claim has suggest emit for a dimension the item has options for:
\* the highest-ranked preferred value the item supports, else the
\* documented default, else the first available option
ExpectedSuggestion(pref, available, default) ==
    LET supported == {i \in 1..Len(pref) : Supports(available, pref[i].value)}
        best == CHOOSE i \in supported :
                    \A j \in supported :
                        \/ pref[j].ratio < pref[i].ratio
                        \/ (pref[j].ratio = pref[i].ratio /\ i <= j)
    IN  IF supported # {} THEN pref[best].value
        ELSE IF default # "" THEN default
        ELSE available[1].value

\* the preference suggest works from, per dimension: the order history's,
\* or the preset's where the history has none
SuggestPref(key) ==
    PrefGet(MergedPref(UserProfile(orders, behaviors, suggestion.user_id, clock)
                           .customization_preference,
                       PresetPrefs(UserPresets(presets, suggestion.user_id))), key)

\* C23: for each customization dimension, suggest emits the user's
\* highest-ranked preferred value that the item supports, and when no
\* preference is usable it emits the item's documented default or, lacking
\* one, the item's first available option for that dimension.
C23_SuggestEmitsPreferredOrDefault ==
    FreshSuggestion =>
        LET options == suggestion.item.options
            said == suggestion.suggested
        IN  /\ options.item_available_temperatures # <<>> =>
                   Upper(said.temperature)
                       = Upper(ExpectedSuggestion(SuggestPref("temperature"),
                                                  options.item_available_temperatures,
                                                  suggestion.item.default_temperature))
            /\ options.item_available_sizes # <<>> =>
                   Upper(said.cup_size)
                       = Upper(ExpectedSuggestion(SuggestPref("cup_size"),
                                                  options.item_available_sizes, ""))
            /\ (options.has_constraints /\ options.available_sugar_levels # <<>>) =>
                   Upper(said.sugar_level)
                       = Upper(ExpectedSuggestion(SuggestPref("sugar_level"),
                                                  options.available_sugar_levels,
                                                  suggestion.item.default_sugar_level))
            /\ (options.has_constraints /\ options.available_milk_types # <<>>) =>
                   Upper(said.milk_type)
                       = Upper(ExpectedSuggestion(SuggestPref("milk_type"),
                                                  options.available_milk_types,
                                                  suggestion.item.default_milk_type))


\* the sum of the weights of the first i variants
CumulativeWeight(variants, i) == TotalWeight(SubSeq(variants, 1, i))

\* C24: for an active experiment the variant returned is the first one, in
\* declaration order, whose cumulative weight exceeds the user's bucket, the
\* bucket being the md5 hash of "{experiment_id}:{user_id}" modulo 100.
C24_FirstVariantOverBucket ==
    LET exp == ab_result.exp
        bucket == Md5Bucket(ab_result.experiment_id, ab_result.user_id)
    IN  ( /\ ab_result.entry # "none"
          /\ exp.status = "active" )
        => \A i \in 1..Len(exp.variants) :
              ( /\ CumulativeWeight(exp.variants, i) > bucket
                /\ \A j \in 1..(i - 1) : CumulativeWeight(exp.variants, j) <= bucket )
              => ab_result.variant = exp.variants[i].id

\* an assignment that passed over the first variant of an active experiment
C24_Witness ==
    LET exp == ab_result.exp
        bucket == Md5Bucket(ab_result.experiment_id, ab_result.user_id)
    IN  /\ ab_result.entry = "async"
        /\ exp.status = "active"
        /\ Len(exp.variants) >= 3
        /\ CumulativeWeight(exp.variants, 1) <= bucket
        /\ CumulativeWeight(exp.variants, 2) > bucket
        /\ ab_result.variant = exp.variants[2].id


\* customization_pref as the boost reads it for the stored call: the
\* order-history preferences, or the preset's when the history gives none
BoostPref ==
    LET user_profile == UserProfile(orders, behaviors, cust_boost.user_id, clock)
        preset_prefs == PresetPrefs(UserPresets(presets, cust_boost.user_id))
    IN  IF DOMAIN user_profile.customization_preference = {} /\ DOMAIN preset_prefs # {}
        THEN preset_prefs ELSE user_profile.customization_preference

\* C25: in the customization boost, a dimension (temperature, size, milk
\* type, sugar level) that is absent from the user's preferences or for
\* which the item lists no options contributes a factor of exactly 1.0.
C25_AbsentDimensionIsNeutral ==
    LET item == cust_boost.item
        f == cust_boost.factors
    IN  (cust_boost.user_id # "" /\ FreshBoost) =>
            /\ (PrefGet(BoostPref, "temperature") = <<>> \/ item.item_available_temperatures = <<>>)
                   => f.temperature_match = FactorOne
            /\ (PrefGet(BoostPref, "cup_size") = <<>> \/ item.item_available_sizes = <<>>)
                   => f.size_match = FactorOne
            /\ (PrefGet(BoostPref, "milk_type") = <<>> \/ item.available_milk_types = <<>>)
                   => f.milk_match = FactorOne
            /\ (PrefGet(BoostPref, "sugar_level") = <<>> \/ item.available_sugar_levels = <<>>)
                   => f.sugar_match = FactorOne


\* the order-history preference of user_id for dimension key
HistoryPref(user_id, key) ==
    PrefGet(UserProfile(orders, behaviors, user_id, clock).customization_preference, key)

\* {dimension: {value: 0.9}} from the latest preset of user_id
LatestPresetPrefs(user_id) == PresetPrefs(UserPresets(presets, user_id))

\* the preset of user_id, and nothing in the order history, gives dimension key
PresetOnly(user_id, key) ==
    HistoryPref(user_id, key) = <<>> /\ PrefGet(LatestPresetPrefs(user_id), key) # <<>>

\* C26: for each dimension separately, when the user has a saved preset and
\* no order-history preference for that dimension, the preset's value is
\* used as the preference with weight 0.9, in the boost and in the suggest
\* computation alike, even if other dimensions have order-history
\* preferences.
C26_PresetFillsEachDimension ==
    /\ (cust_boost.user_id # "" /\ FreshBoost) =>
          LET u == cust_boost.user_id
              p == LatestPresetPrefs(u)
              item == cust_boost.item
              f == cust_boost.factors
          IN  /\ PresetOnly(u, "temperature") => f.temperature_match = temperature_match(p, item)
              /\ PresetOnly(u, "cup_size") => f.size_match = size_match(p, item)
              /\ PresetOnly(u, "milk_type") => f.milk_match = milk_match(p, item)
              /\ PresetOnly(u, "sugar_level") => f.sugar_match = sugar_match(p, item)
    /\ (suggestion.user_id # "" /\ FreshSuggestion) =>
          LET u == suggestion.user_id
              p == LatestPresetPrefs(u)
              item == suggestion.item
              s == suggestion.suggested
          IN  /\ PresetOnly(u, "temperature")
                    => s.temperature = SuggestedTemperature(PrefGet(p, "temperature"), item)
              /\ PresetOnly(u, "cup_size")
                    => s.cup_size = SuggestedSize(PrefGet(p, "cup_size"), item)
              /\ PresetOnly(u, "milk_type")
                    => s.milk_type = SuggestedOption(PrefGet(p, "milk_type"),
                                                     item.options.has_constraints,
                                                     item.options.available_milk_types,
                                                     item.default_milk_type)
              /\ PresetOnly(u, "sugar_level")
                    => s.sugar_level = SuggestedOption(PrefGet(p, "sugar_level"),
                                                       item.options.has_constraints,
                                                       item.options.available_sugar_levels,
                                                       item.default_sugar_level)


\* the user's preferred value for dimension key, as the stored boost call
\* read it, is a key of no entry of the synonym table mapping
OutsideTable(key, mapping) ==
    /\ PrefGet(BoostPref, key) # <<>>
    /\ Upper(PreferredValue(PrefGet(BoostPref, key))) \notin DOMAIN mapping

\* C27: when the user's preferred value for a dimension is absent from the
\* synonym table, that dimension's factor in the customization boost is 1.0
\* (the remaining dimensions being scored as usual).
C27_UnknownValueIsNeutral ==
    LET f == cust_boost.factors
    IN  (cust_boost.user_id # "" /\ FreshBoost) =>
            /\ OutsideTable("temperature", TEMP_MAP) => f.temperature_match = FactorOne
            /\ OutsideTable("cup_size", SIZE_MAP) => f.size_match = FactorOne
            /\ OutsideTable("milk_type", MILK_MAP) => f.milk_match = FactorOne
            /\ OutsideTable("sugar_level", SUGAR_MAP) => f.sugar_match = FactorOne


\* the rows of order_table with every null customization value left out
WithoutNulls(order_table) ==
    [i \in 1..Len(order_table) |->
        [order_table[i] EXCEPT !.customization =
            [key \in DOMAIN order_table[i].customization |->
                IF order_table[i].customization[key] = JsonNull
                THEN "" ELSE order_table[i].customization[key]]]]

\* the stored profile is what get_user_profile_async returns for the present
\* tables
FreshProfile ==
    /\ profile.user_id # ""
    /\ profile = UserProfile(orders, behaviors, profile.user_id, clock)

\* C28: building a profile never aborts because an order carries malformed
\* or missing customization data: only the affected dimension of that order
\* is skipped, and every other order and dimension is aggregated (the
\* preferences are those of the same orders without the null values).
C28_MissingDimensionIsSkipped ==
    FreshProfile =>
        /\ profile.order_count = Len(UserOrders(orders, profile.user_id))
        /\ profile.customization_preference
               = UserProfile(WithoutNulls(orders), behaviors, profile.user_id,
                             clock).customization_preference


\* what get_variant_async returns in the present state for the pair of the
\* last assignment
AsyncVariantNow ==
    AssignVariant(CacheGet(AfterInit.cache, ab_result.experiment_id),
                  ab_result.experiment_id, ab_result.user_id)

\* C29: each synchronous method the ranking pipeline calls (get_variant,
\* get_user_profile, get_order_based_recommendation_boost) returns what its
\* asynchronous counterpart returns for the same stored data, whether or
\* not an event loop is running in the calling thread.
C29_SyncEqualsAsync ==
    /\ ab_result.entry = "sync" => ab_result.variant = AsyncVariantNow
    /\ \A in_loop \in BOOLEAN, user_id \in UserIds :
          /\ UserProfileSync(in_loop, orders, behaviors, user_id, clock)
                 = UserProfile(orders, behaviors, user_id, clock)
          /\ \A item \in Items :
                 OrderBoostSync(in_loop, UserOrders(orders, user_id), item.sku,
                                item.category, item.tags, item.price, clock)
                     = OrderBoost(UserOrders(orders, user_id), item.sku,
                                  item.category, item.tags, item.price, clock)


\* the completed orders created for session_id
OrdersOfSession(session_id) ==
    {i \in 1..Len(completed_orders) : completed_orders[i].session_id = session_id}

\* C30: if two checkout requests for the same session run concurrently on a
\* non-empty cart, at most one order is created for that cart's contents;
\* the other request finds the cart empty and gets the empty-cart error.
\* (No item is added once a checkout request has arrived, so the orders of
\* a session are all for the same cart contents.)
C30_OneOrderPerCart ==
    /\ \A session_id \in CartSessions : Cardinality(OrdersOfSession(session_id)) <= 1
    /\ \A r1, r2 \in CheckoutRequests :
          ( /\ r1 # r2
            /\ checkout[r1].pc = "done" /\ checkout[r2].pc = "done"
            /\ checkout[r1].session_id = checkout[r2].session_id
            /\ checkout[r1].status = "success" )
          => checkout[r2].status = "empty_cart"

====
